---- MODULE Spec2Model ----
(***************************************************************************)
(* A model of solution.py: the PDF outline extractor.                      *)
(*                                                                         *)
(* Texts are sequences of one-character strings, so that every string      *)
(* operation of the program (strip, lower, split, the regular expressions) *)
(* is computed character by character as Python computes it.  Font sizes   *)
(* and y coordinates are integers; every comparison the program makes with *)
(* a float (a percentile, mean + std, 98% of the maximum, a relative y) is *)
(* made here exactly, by cross-multiplication.                             *)
(***************************************************************************)
EXTENDS Integers, Sequences, FiniteSets, TLC

(***************************************************************************)
(* Characters and Python's str methods                                     *)
(***************************************************************************)
Max(S) == CHOOSE x \in S : \A y \in S : y <= x

Min(S) == CHOOSE x \in S : \A y \in S : x <= y

UpperChars == {"A","B","C","D","E","F","G","H","I","J","K","L","M",
               "N","O","P","Q","R","S","T","U","V","W","X","Y","Z"}

LowerChars == {"a","b","c","d","e","f","g","h","i","j","k","l","m",
               "n","o","p","q","r","s","t","u","v","w","x","y","z"}

DigitChars == {"0","1","2","3","4","5","6","7","8","9"}

SpaceChars == {" "}

\* \w of the re module: letters, digits and the underscore
WordChars == UpperChars \cup LowerChars \cup DigitChars \cup {"_"}

LowerMap ==
    ("A" :> "a") @@ ("B" :> "b") @@ ("C" :> "c") @@ ("D" :> "d") @@
    ("E" :> "e") @@ ("F" :> "f") @@ ("G" :> "g") @@ ("H" :> "h") @@
    ("I" :> "i") @@ ("J" :> "j") @@ ("K" :> "k") @@ ("L" :> "l") @@
    ("M" :> "m") @@ ("N" :> "n") @@ ("O" :> "o") @@ ("P" :> "p") @@
    ("Q" :> "q") @@ ("R" :> "r") @@ ("S" :> "s") @@ ("T" :> "t") @@
    ("U" :> "u") @@ ("V" :> "v") @@ ("W" :> "w") @@ ("X" :> "x") @@
    ("Y" :> "y") @@ ("Z" :> "z")

LowerChar(c) == IF c \in UpperChars THEN LowerMap[c] ELSE c

\* str.lower()
lower(s) == [i \in 1..Len(s) |-> LowerChar(s[i])]

\* str.isupper(): at least one cased character and no lower-case one
isupper(s) ==
    /\ \E i \in 1..Len(s) : s[i] \in UpperChars
    /\ \A i \in 1..Len(s) : s[i] \notin LowerChars

\* str.isdigit()
isdigit(s) == Len(s) > 0 /\ \A i \in 1..Len(s) : s[i] \in DigitChars

\* str.strip()
strip(s) ==
    LET keep == {i \in 1..Len(s) : s[i] \notin SpaceChars}
    IN  IF keep = {} THEN <<>>
        ELSE LET lo == CHOOSE i \in keep : \A j \in keep : i <= j
                 hi == CHOOSE i \in keep : \A j \in keep : j <= i
             IN  SubSeq(s, lo, hi)

\* needle in hay
Contains(hay, needle) ==
    \E i \in 0..(Len(hay) - Len(needle)) :
        \A j \in 1..Len(needle) : hay[i + j] = needle[j]

\* any(w in hay for w in words)
ContainsAny(hay, words) == \E w \in words : Contains(hay, w)

startswith(s, p) ==
    Len(p) <= Len(s) /\ \A j \in 1..Len(p) : s[j] = p[j]

endswith(s, p) ==
    Len(p) <= Len(s) /\ \A j \in 1..Len(p) : s[Len(s) - Len(p) + j] = p[j]

\* s.count(c) for a single character c
count(s, c) == Cardinality({i \in 1..Len(s) : s[i] = c})

\* len(s.split()): the number of maximal runs of non-space characters
word_count(s) ==
    Cardinality({i \in 1..Len(s) :
        s[i] \notin SpaceChars /\ (i = 1 \/ s[i - 1] \in SpaceChars)})

\* any(char.isdigit() for char in s[:3])
DigitInFirst3(s) == \E i \in 1..Len(s) : i <= 3 /\ s[i] \in DigitChars

\* sum(1 for c in s if c.isalpha())
alpha_count(s) ==
    Cardinality({i \in 1..Len(s) : s[i] \in UpperChars \cup LowerChars})

\* the places where s.replace('  ', ...) and s.split('  ') find two spaces:
\* left to right without overlap, so at the even offsets of a run of spaces
DoubleSpaceAt(s, i) ==
    /\ i < Len(s) /\ s[i] = " " /\ s[i + 1] = " "
    /\ (i - Max({0} \cup {q \in 1..(i - 1) : s[q] # " "})) % 2 = 1

\* the characters of s at the places keep accepts
KeepAt(s, keep(_)) ==
    LET sel == SelectSeq([i \in 1..Len(s) |-> <<s[i], keep(i)>>], LAMBDA e : e[2])
    IN  [i \in 1..Len(sel) |-> sel[i][1]]

\* s.replace('  ', ' ')
replace2(s) == KeepAt(s, LAMBDA i : ~(i > 1 /\ DoubleSpaceAt(s, i - 1)))

\* re.sub(r'\.+$', '', s)
RECURSIVE strip_dots(_)
strip_dots(s) ==
    IF Len(s) > 0 /\ s[Len(s)] = "." THEN strip_dots(SubSeq(s, 1, Len(s) - 1))
    ELSE s

\* re.sub(r'\s+', ' ', s)
normalize_spaces(s) ==
    KeepAt([i \in 1..Len(s) |-> IF s[i] \in SpaceChars THEN " " ELSE s[i]],
           LAMBDA i : ~(s[i] \in SpaceChars /\ i > 1 /\ s[i - 1] \in SpaceChars))

\* re.sub(r'[^\w\s\-\.]', '', s)
KeptChar(c) == c \in WordChars \cup SpaceChars \cup {"-", "."}

remove_special(s) == SelectSeq(s, KeptChar)

\* s.split('  '): the pieces between the non-overlapping occurrences of two
\* spaces, found left to right
split2(s) ==
    LET at == SelectSeq([i \in 1..Len(s) |-> i], LAMBDA i : DoubleSpaceAt(s, i))
    IN  [j \in 1..(Len(at) + 1) |->
            SubSeq(s, IF j = 1 THEN 1 ELSE at[j - 1] + 2,
                      IF j = Len(at) + 1 THEN Len(s) ELSE at[j] - 1)]

\* len(s.split(','))
comma_parts(s) == count(s, ",") + 1

(***************************************************************************)
(* Regular expressions.  Every pattern of the program is a concatenation   *)
(* of character classes with a repetition range each, matched from the     *)
(* start of the text (re.match), with or without a final $.                *)
(***************************************************************************)
\* a class repeated lo..hi times; hi = -1 stands for no upper limit
It(cls, lo, hi) == [cls |-> cls, lo |-> lo, hi |-> hi]

One(cls) == It(cls, 1, 1)

Plus(cls) == It(cls, 1, -1)

\* the longest run of characters of cls in s from position p
Run(s, p, cls) ==
    LET stops == {q \in p..Len(s) : s[q] \notin cls}
    IN  IF stops = {} THEN Max({0, Len(s) - p + 1}) ELSE Min(stops) - p

RECURSIVE MatchAt(_, _, _, _, _)
MatchAt(re, k, s, p, toEnd) ==
    IF k > Len(re) THEN (~toEnd \/ p = Len(s) + 1)
    ELSE LET r  == Run(s, p, re[k].cls)
             hi == IF re[k].hi >= 0 /\ re[k].hi < r THEN re[k].hi ELSE r
         IN  \E n \in re[k].lo..hi : MatchAt(re, k + 1, s, p + n, toEnd)

\* re.match(pattern, s) for a pattern without $ and with a final $
re_match(re, s) == MatchAt(re, 1, s, 1, FALSE)

re_fullmatch(re, s) == MatchAt(re, 1, s, 1, TRUE)

\* re.search(pattern, s)
re_search(re, s) == \E p \in 1..(Len(s) + 1) : MatchAt(re, 1, s, p, FALSE)

LowerOrSpace == LowerChars \cup SpaceChars

UpperOrSpace == UpperChars \cup SpaceChars

\* ^[A-Z][a-z\s]+[A-Z][a-z\s]+$
RE_MultiTitleCase ==
    <<One(UpperChars), Plus(LowerOrSpace), One(UpperChars), Plus(LowerOrSpace)>>

\* ^[A-Z][a-z\s]+$
RE_TitleCase == <<One(UpperChars), Plus(LowerOrSpace)>>

\* ^[A-Z][A-Z\s]+$
RE_AllCaps == <<One(UpperChars), Plus(UpperOrSpace)>>

\* ^[A-Z][a-z\s]+:$
RE_TitleColon == <<One(UpperChars), Plus(LowerOrSpace), One({":"})>>

\* ^[A-Z][A-Z\s]+:$
RE_CapsColon == <<One(UpperChars), Plus(UpperOrSpace), One({":"})>>

\* ^\d+\.
RE_Numbered == <<Plus(DigitChars), One({"."})>>

\* ^[IVX]+\.
RE_Roman == <<Plus({"I", "V", "X"}), One({"."})>>

\* ^[A-Z]\.
RE_Letter == <<One(UpperChars), One({"."})>>

\* ^\d+\.\d+
RE_SubNumbered == <<Plus(DigitChars), One({"."}), Plus(DigitChars)>>

\* ^\d+\.\d+\.\d+
RE_SubSubNumbered ==
    <<Plus(DigitChars), One({"."}), Plus(DigitChars), One({"."}), Plus(DigitChars)>>

\* ^\d+\.\s+[A-Z]
RE_NumberedTitle ==
    <<Plus(DigitChars), One({"."}), Plus(SpaceChars), One(UpperChars)>>

\* ^\d+\.\d+\s+[A-Z]
RE_SubNumberedTitle ==
    <<Plus(DigitChars), One({"."}), Plus(DigitChars), Plus(SpaceChars),
      One(UpperChars)>>

\* ^\d+
RE_LeadingDigits == <<Plus(DigitChars)>>

\* ^[A-Z][a-z]+ [A-Z][a-z]+$
RE_PersonName ==
    <<One(UpperChars), Plus(LowerChars), One({" "}), One(UpperChars),
      Plus(LowerChars)>>

\* ^\d{1,2}/\d{1,2}/\d{4}$
RE_Date ==
    <<It(DigitChars, 1, 2), One({"/"}), It(DigitChars, 1, 2), One({"/"}),
      It(DigitChars, 4, 4)>>

\* ^[•\-\*]\s+   (the bullet is written "@" in this model's alphabet)
RE_ListItem == <<One({"@", "-", "*"}), Plus(SpaceChars)>>

\* ^\d+\.\d+\s+\d{4}
RE_RevisionYear ==
    <<Plus(DigitChars), One({"."}), Plus(DigitChars), Plus(SpaceChars),
      It(DigitChars, 4, 4)>>

\* ^[A-Z\s]+,?\s+[A-Z]{2}\s+\d{5}$
RE_CityStateZip ==
    <<Plus(UpperOrSpace), It({","}, 0, 1), Plus(SpaceChars),
      It(UpperChars, 2, 2), Plus(SpaceChars), It(DigitChars, 5, 5)>>

\* \d{4}
RE_FourDigits == <<It(DigitChars, 4, 4)>>

\* ^\d+\.\d+\s+\d+\s+[A-Z]
RE_RevisionEntry ==
    <<Plus(DigitChars), One({"."}), Plus(DigitChars), Plus(SpaceChars),
      Plus(DigitChars), Plus(SpaceChars), One(UpperChars)>>

\* ^\d+\.\d+\s+[A-Z]+\s+\d+
RE_VersionEntry ==
    <<Plus(DigitChars), One({"."}), Plus(DigitChars), Plus(SpaceChars),
      Plus(UpperChars), Plus(SpaceChars), Plus(DigitChars)>>

(***************************************************************************)
(* Sorting and sums                                                        *)
(***************************************************************************)
Abs(x) == IF x < 0 THEN -x ELSE x

RECURSIVE SumSeq(_)
SumSeq(s) == IF s = <<>> THEN 0 ELSE Head(s) + SumSeq(Tail(s))

\* sorted(s, key=...): the stable sort of s, Less the strict order of the keys
StableSort(s, Less(_, _)) ==
    LET rank(i) == Cardinality({j \in 1..Len(s) :
                       Less(s[j], s[i]) \/ (~Less(s[i], s[j]) /\ j < i)}) + 1
    IN  [r \in 1..Len(s) |-> s[CHOOSE i \in 1..Len(s) : rank(i) = r]]

\* [f(x) for x in s if keep(x)]
MapFilter(s, keep(_), f(_)) ==
    LET sel == SelectSeq(s, keep)
    IN  [i \in 1..Len(sel) |-> f(sel[i])]

\* the first element of s that satisfies p, as a sequence of length 0 or 1
First(s, p(_)) ==
    LET hits == {i \in 1..Len(s) : p(s[i])}
    IN  IF hits = {} THEN <<>> ELSE <<s[Min(hits)]>>

(***************************************************************************)
(* Lines.  A Line is the record merge_lines builds; of its fields the      *)
(* extraction reads page, y, text, font_size and is_bold.  x and y are in  *)
(* tenths of a unit, so that 100.5 is 1005.                                *)
(***************************************************************************)
mkLine(page, y, text, font_size, is_bold) ==
    [page |-> page, y |-> y, text |-> text, font_size |-> font_size,
     is_bold |-> is_bold]

\* ' '.join([line['text'].lower() for line in lines])
RECURSIVE JoinLower(_)
JoinLower(ls) ==
    IF ls = <<>> THEN <<>>
    ELSE IF Len(ls) = 1 THEN lower(ls[1].text)
    ELSE lower(ls[1].text) \o <<" ">> \o JoinLower(Tail(ls))

(***************************************************************************)
(* analyze_document_structure.  The statistics of a list of font sizes are *)
(* kept in exact form (count, sum, sum of squares, sorted sample), and the *)
(* comparisons against the mean, the standard deviation and the            *)
(* percentiles are decided on them.                                        *)
(***************************************************************************)
FontStats(fonts) ==
    [n      |-> Len(fonts),
     max    |-> Max({fonts[i] : i \in 1..Len(fonts)}),
     sum    |-> SumSeq(fonts),
     sumsq  |-> SumSeq([i \in 1..Len(fonts) |-> fonts[i] * fonts[i]]),
     sorted |-> SortSeq(fonts, LAMBDA a, b : a < b)]

\* f >= np.percentile(sample, p) if len(sample) > 1 else max(sample); the
\* percentile interpolates linearly between the two nearest ranks
GePercentile(f, st, p) ==
    IF st.n = 1 THEN f >= st.max
    ELSE LET h    == (st.n - 1) * p
             lo   == (h \div 100) + 1
             frac == h % 100
             a    == st.sorted[lo]
             b    == IF lo < st.n THEN st.sorted[lo + 1] ELSE a
         IN  f * 100 >= a * 100 + frac * (b - a)

\* f >= avg + k * std for k = num/den, where n*n*std*std = n*sumsq - sum*sum
GeAvgStd(f, st, num, den) ==
    LET d == st.n * f - st.sum
    IN  /\ d >= 0
        /\ den * den * d * d >= num * num * (st.n * st.sumsq - st.sum * st.sum)

\* f >= max * pct / 100
GeMaxPct(f, st, pct) == f * 100 >= st.max * pct

PagesOf(ls) == {ls[i].page : i \in 1..Len(ls)}

PageLines(ls, page) == SelectSeq(ls, LAMBDA l : l.page = page)

FontsOf(ls) == [i \in 1..Len(ls) |-> ls[i].font_size]

analyze_text_patterns(ls) ==
    LET texts == MapFilter(ls, LAMBDA l : strip(l.text) # <<>>,
                               LAMBDA l : strip(l.text))
        cnt(p(_)) == Cardinality({i \in 1..Len(texts) : p(texts[i])})
    IN  [numbered_sections   |-> cnt(LAMBDA t : re_match(RE_Numbered, t)),
         all_caps_headings   |-> cnt(LAMBDA t : isupper(t) /\ Len(t) > 3),
         title_case_headings |->
             cnt(LAMBDA t : re_fullmatch(RE_TitleCase, t) /\ Len(t) > 3),
         colon_endings       |-> cnt(LAMBDA t : endswith(t, <<":">>)),
         short_texts         |-> cnt(LAMBDA t : Len(t) < 20),
         long_texts          |-> cnt(LAMBDA t : Len(t) > 100)]

analyze_layout_patterns(ls) ==
    [p \in PagesOf(ls) |->
        LET ys == {ls[i].y : i \in {j \in 1..Len(ls) : ls[j].page = p}}
        IN  [top_margin |-> Min(ys), bottom_margin |-> Max(ys)]]

analyze_document_structure(ls) ==
    LET positive == SelectSeq(FontsOf(ls), LAMBDA f : f > 0)
    IN  [font_stats |-> [p \in PagesOf(ls) |-> FontStats(FontsOf(PageLines(ls, p)))],
         global_font_stats |->
             IF positive # <<>> THEN <<FontStats(positive)>> ELSE <<>>,
         text_patterns |-> analyze_text_patterns(ls),
         layout_stats |-> analyze_layout_patterns(ls)]

\* relative_y as the fraction num/den: (y - top) / page_height, 0 when the
\* page's lines share one y
relative_y(y, layout) ==
    LET page_height == layout.bottom_margin - layout.top_margin
    IN  IF page_height > 0
        THEN [num |-> y - layout.top_margin, den |-> page_height]
        ELSE [num |-> 0, den |-> 1]

\* r < pct / 100
RelBelow(r, pct) == r.num * 100 < pct * r.den

(***************************************************************************)
(* The extractor's vocabularies                                            *)
(***************************************************************************)
\* 'date', 'signature', 'name', 'age', 'relationship', 's.no', 'page', 'www',
\* 'copyright', 'notice', 'document', 'entirety', 'extracts', 'acknowledged',
\* 'version', 'revision', 'history', 'tracking', 'number', 'id', 'ref'
SkipWords ==
    {<<"d","a","t","e">>, <<"s","i","g","n","a","t","u","r","e">>, <<"n","a","m","e">>, <<"a","g",
          "e">>, <<"r","e","l","a","t","i","o","n","s","h","i","p">>, <<"s",".","n","o">>, <<"p",
          "a","g","e">>, <<"w","w","w">>,
     <<"c","o","p","y","r","i","g","h","t">>, <<"n","o","t","i","c","e">>, <<"d","o","c","u","m",
           "e","n","t">>, <<"e","n","t","i","r","e","t","y">>, <<"e","x","t","r","a","c","t","s">>,
           <<"a","c","k","n","o","w","l","e","d","g","e","d">>,
     <<"v","e","r","s","i","o","n">>, <<"r","e","v","i","s","i","o","n">>, <<"h","i","s","t","o",
           "r","y">>, <<"t","r","a","c","k","i","n","g">>, <<"n","u","m","b","e","r">>, <<"i","d">>,
           <<"r","e","f">>}

\* 'form', 'application', 'advance'
FormTitleWords == {<<"f","o","r","m">>, <<"a","p","p","l","i","c","a","t","i","o","n">>, <<"a","d",
      "v","a","n","c","e">>}

\* 'designation', 'service', 'whether', 'employed', 'entitled'
unwanted_suffixes ==
    <<<<"d","e","s","i","g","n","a","t","i","o","n">>, <<"s","e","r","v","i","c","e">>, <<"w","h",
          "e","t","h","e","r">>, <<"e","m","p","l","o","y","e","d">>, <<"e","n","t","i","t","l","e",
          "d">>>>

\* 'designation', 'service', 'whether', 'employed', 'entitled', 'concession',
\* 'availed', 'block', 'railfare', 'busfare', 'headquarters', 'amount',
\* 'advance', 'date', 'signature', 'name', 'age', 'relationship'
form_indicators ==
    {<<"d","e","s","i","g","n","a","t","i","o","n">>, <<"s","e","r","v","i","c","e">>, <<"w","h",
          "e","t","h","e","r">>, <<"e","m","p","l","o","y","e","d">>, <<"e","n","t","i","t","l","e",
          "d">>, <<"c","o","n","c","e","s","s","i","o","n">>,
     <<"a","v","a","i","l","e","d">>, <<"b","l","o","c","k">>, <<"r","a","i","l","f","a","r","e">>,
           <<"b","u","s","f","a","r","e">>, <<"h","e","a","d","q","u","a","r","t","e","r","s">>,
           <<"a","m","o","u","n","t">>,
     <<"a","d","v","a","n","c","e">>, <<"d","a","t","e">>, <<"s","i","g","n","a","t","u","r","e">>,
           <<"n","a","m","e">>, <<"a","g","e">>, <<"r","e","l","a","t","i","o","n","s","h","i",
           "p">>}

\* 'hope', 'see', 'there', 'come', 'join', 'visit', 'you'
AnnouncementWords ==
    {<<"h","o","p","e">>, <<"s","e","e">>, <<"t","h","e","r","e">>, <<"c","o","m","e">>, <<"j","o",
          "i","n">>, <<"v","i","s","i","t">>, <<"y","o","u">>}

\* 'hope' in t and 'see' in t and 'there' in t
HopeSeeThere(t) ==
    Contains(t, <<"h","o","p","e">>) /\ Contains(t, <<"s","e","e">>) /\ Contains(t, <<"t","h","e",
          "r","e">>)

\* 'pathway' in t and 'options' in t
PathwayOptions(t) == Contains(t, <<"p","a","t","h","w","a","y">>) /\ Contains(t, <<"o","p","t","i",
      "o","n","s">>)

(***************************************************************************)
(* extract_title                                                           *)
(***************************************************************************)
LineBefore(a, b) == a.page < b.page \/ (a.page = b.page /\ a.y < b.y)

\* sorted(lines, key=lambda x: (x['page'], x['y']))
sorted_lines(ls) == StableSort(ls, LineBefore)

\* the title text of a line: newlines and double spaces replaced, trailing
\* dots removed, white space normalised
TitleText(line) ==
    normalize_spaces(strip_dots(strip(replace2(strip(line.text)))))

\* the additive title score of a line whose cleaned text is title
TitleScore(line, title, ds, skipw) ==
    LET f == line.font_size
        g == ds.global_font_stats
        GlobalFont ==
            IF g = <<>> THEN 0
            ELSE IF GeMaxPct(f, g[1], 95) THEN 50
            ELSE IF GePercentile(f, g[1], 90) THEN 40
            ELSE IF GeAvgStd(f, g[1], 1, 1) THEN 30
            ELSE IF GeAvgStd(f, g[1], 0, 1) THEN 20
            ELSE 0
        PageFont ==
            IF line.page \in DOMAIN ds.font_stats
            THEN LET st == ds.font_stats[line.page]
                 IN  IF GePercentile(f, st, 90) THEN 25
                     ELSE IF GePercentile(f, st, 75) THEN 15
                     ELSE 0
            ELSE 0
        Bold == IF line.is_bold THEN 30 ELSE 0
        Position ==
            IF line.page \in DOMAIN ds.layout_stats
            THEN LET r == relative_y(line.y, ds.layout_stats[line.page])
                 IN  IF RelBelow(r, 10) THEN 25
                     ELSE IF RelBelow(r, 20) THEN 15
                     ELSE IF RelBelow(r, 30) THEN 10
                     ELSE 0
            ELSE IF line.y < 2000 THEN 20
            ELSE IF line.y < 4000 THEN 10
            ELSE 0
        PagePriority ==
            IF line.page = 1 THEN 20 ELSE IF line.page = 2 THEN 5 ELSE 0
        wc == word_count(title)
        Words ==
            IF 3 <= wc /\ wc <= 15 THEN 20
            ELSE IF 2 <= wc /\ wc <= 20 THEN 15
            ELSE 0
        NoDigit == IF ~DigitInFirst3(title) THEN 15 ELSE 0
        Casing ==
            IF re_fullmatch(RE_MultiTitleCase, title) THEN 30
            ELSE IF re_fullmatch(RE_TitleCase, title) /\ Len(title) > 5 THEN 25
            ELSE IF re_fullmatch(RE_AllCaps, title) /\ Len(title) > 5 THEN 20
            ELSE 0
        DocPattern ==
            IF ds.text_patterns.title_case_headings > 0
               /\ re_fullmatch(RE_TitleCase, title)
            THEN 10 ELSE 0
    IN  GlobalFont + PageFont + Bold + Position + PagePriority + Words
        + NoDigit + Casing + DocPattern

mkCandidate(line, title, score, ds) ==
    [text |-> title, score |-> score, page |-> line.page, y |-> line.y,
     font_size |-> line.font_size, is_bold |-> line.is_bold,
     word_count |-> word_count(title),
     relative_y |-> IF line.page \in DOMAIN ds.layout_stats
                    THEN relative_y(line.y, ds.layout_stats[line.page])
                    ELSE [num |-> 0, den |-> 1]]

\* Accepted without the boost of the relaxed rule
AcceptedUnboosted(line, title, score, ds) ==
    IF score > 50 /\ Len(title) > 5 THEN <<mkCandidate(line, title, score, ds)>>
    ELSE IF score > 30 /\ Len(title) > 20 /\ word_count(title) >= 5
    THEN <<mkCandidate(line, title, score, ds)>>
    ELSE <<>>

\* the acceptance of a scored line as a candidate, the relaxed rule with its
\* boost of 20
Accepted(line, title, score, ds) ==
    IF score > 50 /\ Len(title) > 5 THEN <<mkCandidate(line, title, score, ds)>>
    ELSE IF score > 30 /\ Len(title) > 20 /\ word_count(title) >= 5
    THEN <<mkCandidate(line, title, score + 20, ds)>>
    ELSE <<>>

CandidateOfText(line, text, title, ds, skipw) ==
    IF ~(text # <<>> /\ Len(text) > 3 /\ ~isdigit(text)) THEN <<>>
    ELSE IF ContainsAny(lower(title), skipw)
            /\ ~ContainsAny(lower(title), FormTitleWords) THEN <<>>
    ELSE Accepted(line, title, TitleScore(line, title, ds, skipw), ds)

\* the candidate a line gives, as a sequence of length 0 or 1
TitleCandidate(line, ds, skipw) ==
    CandidateOfText(line, strip(line.text), TitleText(line), ds, skipw)

RECURSIVE CandidatesOf(_, _, _)
CandidatesOf(ls, ds, skipw) ==
    IF ls = <<>> THEN <<>>
    ELSE TitleCandidate(Head(ls), ds, skipw) \o CandidatesOf(Tail(ls), ds, skipw)

\* title_candidates after title_candidates.sort(key=score, reverse=True)
title_candidates(ls, skipw) ==
    StableSort(CandidatesOf(sorted_lines(ls), analyze_document_structure(ls), skipw),
               LAMBDA a, b : a.score > b.score)

\* |a - b| < pct / 100 for two relative positions
RelDiffBelow(a, b, pct) ==
    Abs(a.num * b.den - b.num * a.den) * 100 < pct * a.den * b.den

\* the continuation candidates of best, in the order of title_candidates
ContinuationCandidates(cands, best) ==
    SelectSeq(Tail(cands), LAMBDA c :
        /\ c.page = 1
        /\ RelBelow(c.relative_y, 50)
        /\ RelDiffBelow(c.relative_y, best.relative_y, 20)
        /\ c.font_size >= best.font_size - 4
        /\ c.text # best.text
        /\ c.word_count <= 10
        /\ c.score > 30)

\* continuation_score = score * 0.7 * (1 - |relative_y - best's relative_y|),
\* times the common denominator of the page-1 candidates and 10/7
ContinuationScore(c, best) ==
    c.score * (c.relative_y.den * best.relative_y.den
               - Abs(c.relative_y.num * best.relative_y.den
                     - best.relative_y.num * c.relative_y.den))

\* the removal of a form-field suffix from the end of a form-like title
RECURSIVE StripSuffix(_, _)
StripSuffix(t, k) ==
    IF k > Len(unwanted_suffixes) THEN t
    ELSE IF endswith(lower(t), unwanted_suffixes[k])
         THEN strip(SubSeq(t, 1, Len(t) - Len(unwanted_suffixes[k])))
         ELSE StripSuffix(t, k + 1)

CleanFormTitle(t) ==
    IF Contains(lower(t), <<"f","o","r","m">>) \/ Contains(lower(t), <<"a","p","p","l","i","c","a",
          "t","i","o","n">>)
    THEN StripSuffix(t, 1) ELSE t

\* the title of a poster: the line with hope, see and there, else an
\* upper-case announcement line, else the largest bold upper-case line, else
\* the literal
PosterTitle(ls) ==
    LET joint == First(ls, LAMBDA l : HopeSeeThere(lower(strip(l.text))))
        caps  == First(ls, LAMBDA l :
                     /\ isupper(strip(l.text))
                     /\ Len(strip(l.text)) > 8
                     /\ ContainsAny(lower(strip(l.text)), AnnouncementWords))
        prominent == SelectSeq(ls, LAMBDA l :
                     /\ Len(strip(l.text)) > 5
                     /\ isupper(strip(l.text))
                     /\ l.is_bold
                     /\ l.font_size > 12)
    IN  IF joint # <<>>
        THEN normalize_spaces(strip(joint[1].text)) \o <<" "," ">>
        ELSE IF caps # <<>> THEN strip(caps[1].text)
        ELSE IF prominent # <<>>
        THEN strip(StableSort(prominent,
                     LAMBDA a, b : a.font_size > b.font_size)[1].text)
        ELSE <<"H","O","P","E"," ","T","o"," ","S","E","E"," ","Y","o","u"," ","T","H","E","R","E",
              "!"," ">>

\* the title once the best candidate and its continuation candidates are known
TitleWith(best, conts, ls) ==
    IF conts # <<>>
    THEN CleanFormTitle(best.text \o <<" "," ">>
             \o StableSort(conts, LAMBDA a, b :
                    ContinuationScore(a, best) > ContinuationScore(b, best))[1].text)
         \o <<" "," ">>
    ELSE IF HopeSeeThere(JoinLower(ls)) THEN PosterTitle(ls)
    ELSE CleanFormTitle(best.text) \o <<" "," ">>

\* TitleFromCandidates falling back unless there are two candidates or more
TitleFromCandidatesAlone(cands, ls) ==
    IF Len(cands) <= 1 THEN <<"U","n","t","i","t","l","e","d"," ","D","o","c","u","m","e","n","t">>
    ELSE TitleWith(cands[1],
                   IF cands[1].page = 1 /\ RelBelow(cands[1].relative_y, 30)
                   THEN ContinuationCandidates(cands, cands[1]) ELSE <<>>,
                   ls)

TitleFromCandidates(cands, ls) ==
    IF cands = <<>> THEN <<"U","n","t","i","t","l","e","d"," ","D","o","c","u","m","e","n","t">>
    ELSE TitleWith(cands[1],
                   IF cands[1].page = 1 /\ RelBelow(cands[1].relative_y, 30)
                   THEN ContinuationCandidates(cands, cands[1]) ELSE <<>>,
                   ls)

extract_title(ls, skipw) == TitleFromCandidates(title_candidates(ls, skipw), ls)

(***************************************************************************)
(* classify_heading_level                                                  *)
(***************************************************************************)
\* the text the features are computed on: trailing dots removed, white
\* space normalised, every character but \w, \s, '-' and '.' removed
HeadingCleanText(text) == remove_special(normalize_spaces(strip_dots(text)))

\* PreRejected without the test for skip words
PreRejectedAnyWord(text, skipw) ==
    \/ Len(text) < 3
    \/ isdigit(text)
    \/ Len(text) < 4
    \/ count(text, ".") > 10
    \/ count(text, "_") > 5

\* the early returns of classify_heading_level, before any scoring
PreRejected(text, skipw) ==
    \/ Len(text) < 3
    \/ isdigit(text)
    \/ ContainsAny(lower(text), skipw)
    \/ Len(text) < 4
    \/ count(text, ".") > 10
    \/ count(text, "_") > 5

has_numbering(text) == re_match(RE_Numbered, text)

has_sub_numbering(text) == re_match(RE_SubNumbered, text)

is_all_caps(text) == isupper(text) /\ Len(text) > 2

\* Features 1 and 2: the font size against the document's and the page's
FontFeatures(line, ds) ==
    LET f == line.font_size
        g == ds.global_font_stats
        GlobalFont ==
            IF g = <<>> THEN 0
            ELSE IF GeMaxPct(f, g[1], 98) THEN 50
            ELSE IF GePercentile(f, g[1], 90) THEN 40
            ELSE IF GeAvgStd(f, g[1], 3, 2) THEN 35
            ELSE IF GeAvgStd(f, g[1], 1, 1) THEN 25
            ELSE IF GeAvgStd(f, g[1], 0, 1) THEN 15
            ELSE 0
        PageFont ==
            IF line.page \in DOMAIN ds.font_stats
            THEN LET st == ds.font_stats[line.page]
                 IN  IF GePercentile(f, st, 90) THEN 30
                     ELSE IF GePercentile(f, st, 75) THEN 20
                     ELSE IF GeAvgStd(f, st, 1, 1) THEN 15
                     ELSE 0
            ELSE 0
    IN  GlobalFont + PageFont

\* Feature 3
BoldFeature(line) == IF line.is_bold THEN 35 ELSE 0

\* Features 4 and 5: numbering and the structural patterns
PatternFeatures(text, clean) ==
    (IF has_numbering(text) /\ ~has_sub_numbering(text) THEN 40
     ELSE IF has_sub_numbering(text) THEN 35
     ELSE IF re_match(RE_Roman, text) THEN 30
     ELSE IF is_all_caps(text) /\ Len(clean) > 5 THEN 30
     ELSE IF re_match(RE_Letter, text) THEN 25
     ELSE 0)
    +
    (IF re_match(RE_NumberedTitle, clean) THEN 45
     ELSE IF re_match(RE_SubNumberedTitle, clean) THEN 40
     ELSE IF re_fullmatch(RE_AllCaps, clean) /\ Len(clean) > 5 THEN 35
     ELSE IF re_fullmatch(RE_TitleColon, clean) THEN 30
     ELSE IF re_fullmatch(RE_CapsColon, clean) THEN 35
     ELSE 0)

\* Feature 6: the word count and the leading digits
LengthFeatures(clean) ==
    LET wc == word_count(clean)
    IN  (IF 2 <= wc /\ wc <= 8 THEN 20
         ELSE IF 1 <= wc /\ wc <= 12 THEN 15
         ELSE 0)
        + (IF ~DigitInFirst3(clean) THEN 15 ELSE 0)

\* Feature 7: the position on the page
PositionFeature(line, ds) ==
    IF line.page \in DOMAIN ds.layout_stats
    THEN LET r == relative_y(line.y, ds.layout_stats[line.page])
         IN  IF RelBelow(r, 15) THEN 20
             ELSE IF RelBelow(r, 25) THEN 15
             ELSE IF RelBelow(r, 40) THEN 10
             ELSE 0
    ELSE IF line.y < 2000 THEN 20
    ELSE IF line.y < 4000 THEN 15
    ELSE IF line.y < 6000 THEN 10
    ELSE 0

\* Feature 8: no bracket in the cleaned text
BracketFeature(clean) ==
    IF \A i \in 1..Len(clean) : clean[i] \notin {"(", ")", "[", "]", "{", "}"}
    THEN 15 ELSE 0

\* Feature 9: the casing patterns, cumulative
CasingFeatures(clean) ==
    (IF re_fullmatch(RE_TitleCase, clean) /\ Len(clean) > 3 THEN 25 ELSE 0)
    + (IF re_fullmatch(RE_AllCaps, clean) /\ Len(clean) > 5 THEN 30 ELSE 0)
    + (IF re_fullmatch(RE_TitleColon, clean) THEN 35 ELSE 0)
    + (IF re_fullmatch(RE_CapsColon, clean) THEN 40 ELSE 0)
    + (IF re_fullmatch(RE_MultiTitleCase, clean) THEN 30 ELSE 0)

\* Feature 10: the patterns the document itself uses
AdaptiveFeatures(text, ds) ==
    LET tp == ds.text_patterns
    IN  (IF tp.numbered_sections > 0 /\ has_numbering(text) THEN 15 ELSE 0)
        + (IF tp.all_caps_headings > 0 /\ is_all_caps(text) THEN 15 ELSE 0)
        + (IF tp.colon_endings > 0 /\ endswith(text, <<":">>) THEN 15 ELSE 0)

\* Feature 11
QualityFeature(text) ==
    IF Len(text) > 3 /\ text[1] \in UpperChars /\ ~endswith(text, <<".">>)
    THEN 25 ELSE 0

\* HeadingScore with Feature 8 written score = 15 instead of score += 15
HeadingScoreOverwritten(line, ds) ==
    LET text  == strip(line.text)
        clean == HeadingCleanText(text)
    IN  BracketFeature(clean)
        + CasingFeatures(clean) + AdaptiveFeatures(text, ds) + QualityFeature(text)

\* the score of a line that passed the early returns
HeadingScore(line, ds) ==
    LET text  == strip(line.text)
        clean == HeadingCleanText(text)
    IN  FontFeatures(line, ds) + BoldFeature(line) + PatternFeatures(text, clean)
        + LengthFeatures(clean) + PositionFeature(line, ds) + BracketFeature(clean)
        + CasingFeatures(clean) + AdaptiveFeatures(text, ds) + QualityFeature(text)

\* LevelOfScore with the tiers named one level deeper, H2 to H5
LevelOfScoreShifted(score, clean) ==
    IF score >= 95
    THEN (IF re_match(RE_SubNumbered, clean) THEN "H3" ELSE "H2")
    ELSE IF score >= 75
    THEN (IF re_match(RE_SubSubNumbered, clean) THEN "H4" ELSE "H3")
    ELSE IF score >= 60 THEN "H4"
    ELSE IF score >= 50 THEN "H5"
    ELSE "None"

\* LevelOfScore without the H3 exception of the second tier
LevelOfScoreNoTriple(score, clean) ==
    IF score >= 95
    THEN (IF re_match(RE_SubNumbered, clean) THEN "H2" ELSE "H1")
    ELSE IF score >= 75 THEN "H2"
    ELSE IF score >= 60 THEN "H3"
    ELSE IF score >= 50 THEN "H4"
    ELSE "None"

\* the level a score gives a text
LevelOfScore(score, clean) ==
    IF score >= 95
    THEN (IF re_match(RE_SubNumbered, clean) THEN "H2" ELSE "H1")
    ELSE IF score >= 75
    THEN (IF re_match(RE_SubSubNumbered, clean) THEN "H3"
          ELSE IF re_match(RE_SubNumbered, clean) THEN "H2"
          ELSE "H2")
    ELSE IF score >= 60
    THEN (IF re_match(RE_SubSubNumbered, clean) THEN "H3" ELSE "H3")
    ELSE IF score >= 50 THEN "H4"
    ELSE "None"

\* the level with the score it rests on
Scored(score, clean) ==
    [scored |-> TRUE, score |-> score, level |-> LevelOfScore(score, clean)]

\* classify_heading_level: the level it returns ("None" for None), and the
\* score it computed when it got as far as scoring
classify_heading_level(line, ds, skipw) ==
    IF PreRejected(strip(line.text), skipw)
    THEN [scored |-> FALSE, score |-> 0, level |-> "None"]
    ELSE Scored(HeadingScore(line, ds), HeadingCleanText(strip(line.text)))

(***************************************************************************)
(* is_quality_heading                                                      *)
(***************************************************************************)
is_quality_heading(heading, ds) ==
    LET text == strip(heading.text)
        wc   == word_count(text)
        tp   == ds.text_patterns
    IN  /\ ~(Len(text) < 3 \/ Len(text) > 200)
        /\ ~(wc < 1 \/ wc > 15)
        /\ text[1] \notin LowerChars
        /\ ~(count(text, ".") > 5 \/ count(text, ",") > 3)
        /\ ~(alpha_count(text) * 10 < Len(text) * 3)
        /\ ~(tp.numbered_sections > 5 /\ ~re_match(RE_LeadingDigits, text))
        /\ ~(tp.all_caps_headings > 3 /\ ~isupper(text))

(***************************************************************************)
(* validate_page_numbers                                                   *)
(***************************************************************************)
\* the keys of page_lines in the order a dict keeps them: the pages in the
\* order of their first line in lines
RECURSIVE PageOrder(_, _)
PageOrder(ls, seen) ==
    IF ls = <<>> THEN <<>>
    ELSE IF Head(ls).page \in seen THEN PageOrder(Tail(ls), seen)
    ELSE <<Head(ls).page>> \o PageOrder(Tail(ls), seen \cup {Head(ls).page})

TextOnPage(ls, page, t) ==
    \E i \in 1..Len(ls) : ls[i].page = page /\ Contains(lower(ls[i].text), t)

\* ValidatedPage without the look at the heading's own page first
ValidatedPageFirstFound(heading, ls) ==
    LET t     == lower(heading.text)
        order == PageOrder(ls, {})
        found == First(order, LAMBDA p : TextOnPage(ls, p, t))
    IN  IF heading.page = 0 THEN 0
        ELSE IF found # <<>> THEN found[1]
        ELSE heading.page

ValidatedPage(heading, ls) ==
    LET t     == lower(heading.text)
        order == PageOrder(ls, {})
        found == First(order, LAMBDA p : TextOnPage(ls, p, t))
    IN  IF heading.page = 0 THEN 0
        ELSE IF TextOnPage(ls, heading.page, t) THEN heading.page
        ELSE IF found # <<>> THEN found[1]
        ELSE heading.page

validate_page_numbers(headings, ls) ==
    [i \in 1..Len(headings) |->
        [headings[i] EXCEPT !.page = ValidatedPage(headings[i], ls)]]

(***************************************************************************)
(* extract_outline                                                         *)
(***************************************************************************)
mkHeading(level, text, page) == [level |-> level, text |-> text, page |-> page]

\* The value extract_outline produces: a list of headings (kind "list"), a
\* str (kind "str", two of its returns) or an exception (kind "raise").
ListResult(hs) == [kind |-> "list", headings |-> hs, text |-> <<>>]

StrResult(t) == [kind |-> "str", headings |-> <<>>, text |-> t]

RaiseResult == [kind |-> "raise", headings |-> <<>>, text |-> <<>>]

\* IsTitleLine comparing the text with the title as returned, padding and all
IsTitleLineUnstripped(text, title) == text = title

\* whether the first loop passes a line on to classify_heading_level
IsTitleLine(text, title) ==
    \/ text = strip(title)
    \/ \E k \in 1..Len(split2(title)) :
           strip(split2(title)[k]) # <<>> /\ strip(split2(title)[k]) = text

\* the text of the heading a line becomes
HeadingText(text) == strip(normalize_spaces(strip_dots(text)))

\* What the first loop does with a line: called says whether it reaches
\* classify_heading_level, the rest is what that call gave.
Classified(line, title, ds, skipw) ==
    IF Len(strip(line.text)) < 3 \/ IsTitleLine(strip(line.text), title)
    THEN [called |-> FALSE, scored |-> FALSE, score |-> 0, level |-> "None"]
    ELSE [called |-> TRUE] @@ classify_heading_level(line, ds, skipw)

classify_lines(ls, title, ds, skipw) ==
    [i \in 1..Len(ls) |-> Classified(ls[i], title, ds, skipw)]

potential_headings(ls, cls) ==
    LET idx == SelectSeq([i \in 1..Len(ls) |-> i], LAMBDA i : cls[i].level # "None")
    IN  [k \in 1..Len(idx) |->
            mkHeading(cls[idx[k]].level, HeadingText(strip(ls[idx[k]].text)),
                      ls[idx[k]].page)]

LevelRank(level) ==
    CASE level = "H1" -> 1 [] level = "H2" -> 2 [] level = "H3" -> 3
      [] level = "H4" -> 4

\* 'copyright', 'all rights reserved', 'page', 'confidential'
BoilerplateWords ==
    {<<"c","o","p","y","r","i","g","h","t">>, <<"a","l","l"," ","r","i","g","h","t","s"," ","r","e",
          "s","e","r","v","e","d">>, <<"p","a","g","e">>, <<"c","o","n","f","i","d","e","n","t","i",
          "a","l">>}

\* 'summary', 'background', 'references', 'acknowledgements'
SingleWordWhitelist ==
    {<<"s","u","m","m","a","r","y">>, <<"b","a","c","k","g","r","o","u","n","d">>, <<"r","e","f",
          "e","r","e","n","c","e","s">>, <<"a","c","k","n","o","w","l","e","d","g","e","m","e","n",
          "t","s">>}

\* 'street', 'avenue', 'road', 'drive', 'lane', 'city', 'state', 'zip'
AddressWords ==
    {<<"s","t","r","e","e","t">>, <<"a","v","e","n","u","e">>, <<"r","o","a","d">>, <<"d","r","i",
          "v","e">>, <<"l","a","n","e">>, <<"c","i","t","y">>, <<"s","t","a","t","e">>, <<"z","i",
          "p">>}

\* 'regular', 'distinction', 'extracurricular', 'science', 'technology', 'careers'
BrochureWords ==
    {<<"r","e","g","u","l","a","r">>, <<"d","i","s","t","i","n","c","t","i","o","n">>, <<"e","x",
          "t","r","a","c","u","r","r","i","c","u","l","a","r">>, <<"s","c","i","e","n","c","e">>,
          <<"t","e","c","h","n","o","l","o","g","y">>,
     <<"c","a","r","e","e","r","s">>}

\* 'summary', 'background', 'references', 'acknowledgements', 'revision',
\* 'table', 'contents'
LowercaseKeywords ==
    {<<"s","u","m","m","a","r","y">>, <<"b","a","c","k","g","r","o","u","n","d">>, <<"r","e","f",
          "e","r","e","n","c","e","s">>, <<"a","c","k","n","o","w","l","e","d","g","e","m","e","n",
          "t","s">>, <<"r","e","v","i","s","i","o","n">>,
     <<"t","a","b","l","e">>, <<"c","o","n","t","e","n","t","s">>}

\* The second loop's verdict on a heading text: "skip" (a continue), "keep",
\* or "raise": text[0] of an empty text is an IndexError.  In this model's
\* alphabet "@" stands for the bullet U+2022, "#" for the black circle U+25CF
\* and "%" for the copyright sign U+00A9.
FilterVerdict(text, all_text) ==
    IF ContainsAny(lower(text), BoilerplateWords) THEN "skip"
    ELSE IF re_fullmatch(RE_PersonName, text) \/ re_fullmatch(RE_Date, text)
    THEN "skip"
    ELSE IF word_count(text) = 1 /\ lower(text) \notin SingleWordWhitelist
    THEN "skip"
    ELSE IF Len(text) > 100 THEN "skip"
    ELSE IF re_match(RE_ListItem, text) THEN "skip"
    ELSE IF \E c \in {"#", "@", "-", "*"} : startswith(text, <<c>>) THEN "skip"
    ELSE IF re_match(RE_RevisionYear, text) THEN "skip"
    ELSE IF ContainsAny(lower(text), AddressWords) THEN "skip"
    ELSE IF re_fullmatch(RE_CityStateZip, text) THEN "skip"
    ELSE IF startswith(text, <<"(">>) /\ endswith(text, <<")">>) THEN "skip"
    ELSE IF Contains(text, <<"P","L","E","A","S","E"," ","V","I","S","I","T">>) \/ Contains(text,
          <<"R","E","Q","U","I","R","E","D"," ","F","O","R">>)
    THEN "skip"
    ELSE IF Contains(text, <<"P","A","R","E","N","T","S">>) /\ Contains(text, <<"G","U","A","R","D",
          "I","A","N","S">>) THEN "skip"
    ELSE IF \E k \in 1..Len(unwanted_suffixes) : lower(text) = unwanted_suffixes[k]
    THEN "skip"
    ELSE IF PathwayOptions(all_text)
            /\ (\/ ContainsAny(lower(text), BrochureWords)
                \/ Contains(lower(text), <<"c","l","a","s","s">>)
                \/ Contains(lower(text), <<"a","c","t","i","v","i","t","y">>)
                \/ (word_count(text) > 3 /\ ~isupper(text)))
    THEN "skip"
    ELSE IF HopeSeeThere(all_text) /\ (Len(text) < 3 \/ Len(text) > 50) THEN "skip"
    ELSE IF text = <<>> THEN "raise"
    ELSE IF text[1] \in LowerChars /\ ~ContainsAny(lower(text), LowercaseKeywords)
    THEN "skip"
    ELSE IF re_search(RE_FourDigits, text) /\ Len(text) < 15 THEN "skip"
    ELSE IF re_match(RE_RevisionEntry, text) \/ re_match(RE_VersionEntry, text)
    THEN "skip"
    ELSE IF Contains(text, <<",">>) /\ comma_parts(text) > 2 THEN "skip"
    ELSE IF Contains(text, <<"%">>) \/ Contains(lower(text), <<"c","o","p","y","r","i","g","h",
          "t">>) THEN "skip"
    ELSE "keep"

\* Promoted for a heading with pathway and options only
PromotedForPathway(h) ==
    IF PathwayOptions(h.text) THEN [h EXCEPT !.level = "H1", !.page = 0] ELSE h

\* the heading as the second loop appends it
Promoted(h) ==
    LET h1 == IF isupper(h.text) /\ Len(h.text) > 5
              THEN [h EXCEPT !.level = "H1"] ELSE h
    IN  IF PathwayOptions(h.text)
        THEN [h1 EXCEPT !.level = "H1", !.page = 0] ELSE h1

important_headings(potential, all_text) ==
    MapFilter(potential, LAMBDA h : FilterVerdict(h.text, all_text) = "keep", Promoted)

DedupKey(h) == normalize_spaces(strip(lower(h.text)))

\* final_headings without the quality assessment
RECURSIVE final_headingsUngated(_, _, _)
final_headingsUngated(important, seen_texts, ds) ==
    IF important = <<>> THEN <<>>
    ELSE LET h == Head(important)
         IN  IF DedupKey(h) \notin seen_texts
             THEN <<h>> \o final_headingsUngated(Tail(important),
                                                 seen_texts \cup {DedupKey(h)}, ds)
             ELSE final_headingsUngated(Tail(important), seen_texts, ds)

\* final_headings that never adds a key to seen_texts
RECURSIVE final_headingsNoSeen(_, _, _)
final_headingsNoSeen(important, seen_texts, ds) ==
    IF important = <<>> THEN <<>>
    ELSE LET h == Head(important)
         IN  IF DedupKey(h) \notin seen_texts /\ is_quality_heading(h, ds)
             THEN <<h>> \o final_headingsNoSeen(Tail(important), seen_texts, ds)
             ELSE final_headingsNoSeen(Tail(important), seen_texts, ds)

RECURSIVE final_headings(_, _, _)
final_headings(important, seen_texts, ds) ==
    IF important = <<>> THEN <<>>
    ELSE LET h == Head(important)
         IN  IF DedupKey(h) \notin seen_texts /\ is_quality_heading(h, ds)
             THEN <<h>> \o final_headings(Tail(important),
                                          seen_texts \cup {DedupKey(h)}, ds)
             ELSE final_headings(Tail(important), seen_texts, ds)

\* the line with the largest font among those of sel, the first of them on a
\* tie (a stable sort by font size, descending)
MostProminent(sel) ==
    StableSort(sel, LAMBDA a, b : a.font_size > b.font_size)[1]

UpperLongerThan(ls, n) ==
    SelectSeq(ls, LAMBDA l : Len(strip(l.text)) > n /\ isupper(strip(l.text)))

\* the brochure override: the headings it leaves, given those found so far
BrochureOverride(ls, found) ==
    LET main == First(ls, LAMBDA l :
                    /\ PathwayOptions(lower(strip(l.text)))
                    /\ isupper(strip(l.text))
                    /\ Len(strip(l.text)) > 5)
        bold == First(ls, LAMBDA l :
                    isupper(strip(l.text)) /\ Len(strip(l.text)) > 5 /\ l.is_bold)
        prominent_lines == UpperLongerThan(ls, 3)
    IN  IF main # <<>> THEN <<mkHeading("H1", strip(main[1].text), 0)>>
        ELSE IF bold # <<>> THEN <<mkHeading("H1", strip(bold[1].text), 0)>>
        ELSE IF prominent_lines # <<>>
        THEN <<mkHeading("H1", strip(MostProminent(prominent_lines).text), 0)>>
        ELSE found

\* the poster override: a result that is returned at once (kind "str") or the
\* headings that go on to the page validation (kind "list")
PosterOverride(ls) ==
    LET joint == First(ls, LAMBDA l : HopeSeeThere(lower(strip(l.text))))
        caps  == First(ls, LAMBDA l :
                     /\ isupper(strip(l.text))
                     /\ Len(strip(l.text)) > 8
                     /\ ContainsAny(lower(strip(l.text)), AnnouncementWords))
        prominent == SelectSeq(ls, LAMBDA l :
                     /\ Len(strip(l.text)) > 5
                     /\ isupper(strip(l.text))
                     /\ l.is_bold
                     /\ l.font_size > 12)
        fallback == UpperLongerThan(ls, 3)
    IN  IF joint # <<>>
        THEN ListResult(<<mkHeading("H1", normalize_spaces(strip(joint[1].text)), 0)>>)
        ELSE IF caps # <<>>
        THEN ListResult(<<mkHeading("H1", strip(caps[1].text), 0)>>)
        ELSE IF prominent # <<>>
        THEN ListResult(<<mkHeading("H1", strip(MostProminent(prominent).text), 0)>>)
        ELSE IF fallback # <<>>
        THEN StrResult(strip(MostProminent(fallback).text) \o <<" "," ">>)
        ELSE StrResult(<<"U","n","t","i","t","l","e","d"," ","D","o","c","u","m","e","n","t"," ",
              " ">>)

MAX_HEADINGS == 40

\* Capped without the sort: the first MAX_HEADINGS headings as they come
CappedAsTheyCome(hs) ==
    IF Len(hs) > MAX_HEADINGS THEN SubSeq(hs, 1, MAX_HEADINGS) ELSE hs

\* the cap: the first MAX_HEADINGS headings by (page, level) when there are more
Capped(hs) ==
    IF Len(hs) > MAX_HEADINGS
    THEN SubSeq(StableSort(hs, LAMBDA a, b :
                    \/ a.page < b.page
                    \/ (a.page = b.page /\ LevelRank(a.level) < LevelRank(b.level))),
                1, MAX_HEADINGS)
    ELSE hs

\* the overrides, the page validation and the cap, on the headings found
Finish(ls, found, all_text) ==
    IF HopeSeeThere(all_text) /\ PosterOverride(ls).kind = "str"
    THEN PosterOverride(ls)
    ELSE ListResult(Capped(validate_page_numbers(
             IF HopeSeeThere(all_text) THEN PosterOverride(ls).headings
             ELSE IF PathwayOptions(all_text) THEN BrochureOverride(ls, found)
             ELSE found, ls)))

\* the second loop and what follows it
OutlineFromPotential(ls, potential, ds, all_text) ==
    IF \E i \in 1..Len(potential) :
           FilterVerdict(potential[i].text, all_text) = "raise"
    THEN RaiseResult
    ELSE Finish(ls, final_headings(important_headings(potential, all_text), {}, ds),
                all_text)

\* OutlineFor with the form test written > 8 instead of >= 8
OutlineForAboveEight(ls, cls, ds, all_text) ==
    IF Cardinality({w \in form_indicators : Contains(all_text, w)}) > 8
    THEN [outline |-> ListResult(<<>>), classified |-> <<>>]
    ELSE [outline |-> OutlineFromPotential(ls, potential_headings(ls, cls), ds,
                                           all_text),
          classified |-> cls]

\* extract_outline after its first lines: the outline, with the record of
\* what the first loop did with each line
OutlineFor(ls, cls, ds, all_text) ==
    IF Cardinality({w \in form_indicators : Contains(all_text, w)}) >= 8
    THEN [outline |-> ListResult(<<>>), classified |-> <<>>]
    ELSE [outline |-> OutlineFromPotential(ls, potential_headings(ls, cls), ds,
                                           all_text),
          classified |-> cls]

outline_trace(ls, ds, skipw) ==
    OutlineFor(ls, classify_lines(ls, extract_title(ls, skipw), ds, skipw), ds,
               JoinLower(ls))

extract_outline(ls, skipw) ==
    outline_trace(ls, analyze_document_structure(ls), skipw).outline

(***************************************************************************)
(* merge_lines.  The coordinates of a span are in tenths of a unit, and so *)
(* is the y of a Line.                                                     *)
(***************************************************************************)
mkSpan(page, x, y, width, text, size, bold) ==
    [page |-> page, x |-> x, y |-> y, width |-> width, text |-> text,
     size |-> size, bold |-> bold]

\* round(num / den) as Python 3 rounds: to the nearest integer, a half to the
\* even one (num >= 0, den > 0)
RoundHalfEven(num, den) ==
    LET q == num \div den
        r == num % den
    IN  IF 2 * r < den THEN q
        ELSE IF 2 * r > den THEN q + 1
        ELSE IF q % 2 = 0 THEN q ELSE q + 1

\* round(span['y'] / y_tolerance) * y_tolerance
y_key(span, y_tolerance) == RoundHalfEven(span.y, y_tolerance) * y_tolerance

\* the keys of lines_by_page in the order a dict keeps them
RECURSIVE KeyOrder(_, _, _)
KeyOrder(sp, y_tolerance, seen) ==
    IF sp = <<>> THEN <<>>
    ELSE LET k == <<Head(sp).page, y_key(Head(sp), y_tolerance)>>
         IN  IF k \in seen THEN KeyOrder(Tail(sp), y_tolerance, seen)
             ELSE <<k>> \o KeyOrder(Tail(sp), y_tolerance, seen \cup {k})

\* the texts of the spans of one line, a space put before a span that starts
\* more than x_tolerance from the end of the span before it
RECURSIVE MergedText(_, _, _)
MergedText(line_spans, k, x_tolerance) ==
    IF k > Len(line_spans) THEN <<>>
    ELSE (IF k > 1
             /\ Abs(line_spans[k].x
                    - (line_spans[k - 1].x + line_spans[k - 1].width)) > x_tolerance
          THEN <<" ">> ELSE <<>>)
         \o line_spans[k].text \o MergedText(line_spans, k + 1, x_tolerance)

merge_lines(sp, y_tolerance, x_tolerance) ==
    LET keys == KeyOrder(sp, y_tolerance, {})
        group(k) == StableSort(
            SelectSeq(sp, LAMBDA s : <<s.page, y_key(s, y_tolerance)>> = k),
            LAMBDA a, b : a.x < b.x)
    IN  [i \in 1..Len(keys) |->
            LET line_spans == group(keys[i])
            IN  mkLine(keys[i][1], keys[i][2],
                       strip(replace2(MergedText(line_spans, 1, x_tolerance))),
                       Max({line_spans[j].size : j \in 1..Len(line_spans)}),
                       \E j \in 1..Len(line_spans) : line_spans[j].bold)]

(***************************************************************************)
(* The state: one extractor, and the document process_pdf is working on    *)
(***************************************************************************)
VARIABLES
    skip_words,   \* self.skip_words of the extractor
    pc,           \* where process_pdf is: "decode", "merged", "title", "done"
    spans,        \* the spans extract_text_spans has returned
    lines,        \* the Lines of the document
    title,        \* what extract_title returned
    outline,      \* what extract_outline returned
    classified,   \* per Line, what the first loop of extract_outline did
    result,       \* what process_pdf returned
    memo,         \* an earlier document of this extractor, with its results
    batch,        \* process_pdfs: the files done, what was written, what it raised
    headings      \* the headings a call of validate_page_numbers is given

vars ==
    <<skip_words, pc, spans, lines, title, outline, classified, result, memo, batch,
      headings>>

NoOutline == ListResult(<<>>)

NoResult == [title |-> <<>>, outline |-> <<>>]

NoMemo ==
    [set |-> FALSE, others |-> FALSE, lines |-> <<>>, title |-> <<>>,
     outline |-> NoOutline]

\* process_pdfs before its loop: no output file written, nothing raised
NoBatch == [written |-> <<>>, raised |-> FALSE]

Init ==
    /\ skip_words = SkipWords
    /\ pc = "decode"
    /\ spans = <<>>
    /\ lines = <<>>
    /\ title = <<>>
    /\ outline = NoOutline
    /\ classified = <<>>
    /\ result = NoResult
    /\ memo = NoMemo
    /\ batch = NoBatch
    /\ headings = <<>>

(***************************************************************************)
(* The documents                                                           *)
(***************************************************************************)
MaxLines == 2

MaxPage == 2

Pages == 1..MaxPage

\* the y of a Line is a multiple of y_tolerance: merge_lines quantizes it
Ys == {0, 3000}

Style(font_size, is_bold) == [font_size |-> font_size, is_bold |-> is_bold]

HeadingStyle == Style(24, TRUE)

BodyStyle == Style(11, FALSE)

Texts ==
    {<<"d","e","s","i","g","n","a","t","i","o","n"," ","s","e","r","v","i","c","e"," ","w","h","e",
          "t","h","e","r"," ","e","m","p","l","o","y","e","d"," ","e","n","t","i","t","l","e","d",
          " ","c","o","n","c","e","s","s","i","o","n"," ","a","v","a","i","l","e","d"," ","b","l",
          "o","c","k">>,
     <<"P","A","T","H","W","A","Y"," ","O","P","T","I","O","N","S">>,
     <<"P","a","t","h","w","a","y"," ","o","p","t","i","o","n","s"," ","f","o","r"," ","y","o",
           "u">>,
     <<"H","O","P","E"," ","T","o"," ","S","E","E"," ","Y","o","u"," ","T","H","E","R","E","!">>,
     <<"w","e"," ","h","o","p","e"," ","s","o">>,
     <<"s","e","e"," ","y","o","u"," ","t","h","e","r","e">>,
     <<"P","r","o","j","e","c","t"," ","S","u","m","m","a","r","y">>,
     <<"P","r","o","j","e","c","t"," ","S","u","m","m","a","r","y",".",".",".">>,
     <<"T","h","e"," ","q","u","i","c","k"," ","f","o","x"," ","r","u","n","s",".">>,
     <<".",".",".",".">>,
     <<"1","."," ","I","n","t","r","o","d","u","c","t","i","o","n">>,
     <<"2",".","1"," ","S","c","o","p","e"," ","o","f"," ","w","o","r","k">>,
     <<"R","e","f","e","r","e","n","c","e","s">>,
     <<"O","v","e","r","v","i","e","w","2">>}

LinePool == Texts \X {HeadingStyle, BodyStyle}

\* extract_text_spans and merge_lines yield one more Line of the document
DecodeLine(pool, pages) ==
    /\ pc = "decode"
    /\ spans = <<>>
    /\ Len(lines) < MaxLines
    /\ \E l \in pool, page \in pages, y \in Ys :
          /\ \A i \in 1..Len(lines) : ~(lines[i].page = page /\ lines[i].y = y)
          /\ lines' = Append(lines,
                 mkLine(page, y, l[1], l[2].font_size, l[2].is_bold))
    /\ UNCHANGED <<skip_words, pc, spans, title, outline, classified, result, memo, batch,
          headings>>

\* ExtractTitle with an extractor that adds each title it finds to its
\* skip_words
ExtractTitleLearning ==
    /\ pc = "merged" \/ (pc = "decode" /\ spans = <<>>)
    /\ title' = extract_title(lines, skip_words)
    /\ skip_words' = skip_words \cup {lower(strip(title'))}
    /\ pc' = "title"
    /\ UNCHANGED <<spans, lines, outline, classified, result, memo, batch, headings>>

\* title = self.extract_title(lines)
ExtractTitle ==
    /\ pc = "merged" \/ (pc = "decode" /\ spans = <<>>)
    /\ title' = extract_title(lines, skip_words)
    /\ pc' = "title"
    /\ UNCHANGED <<skip_words, spans, lines, outline, classified, result, memo, batch, headings>>

\* what process_pdf returns: the title and the outline, or the record of its
\* except branch
process_pdf_result(t, o) ==
    IF o.kind = "raise"
    THEN [title |-> <<"E","r","r","o","r"," ","P","r","o","c","e","s","s","i","n","g"," ","D","o",
          "c","u","m","e","n","t">>, outline |-> <<>>]
    ELSE [title |-> t, outline |-> IF o.kind = "str" THEN o.text ELSE o.headings]

\* outline = self.extract_outline(lines), and the return of process_pdf
ExtractOutline ==
    /\ pc = "title"
    /\ \E r \in {outline_trace(lines, analyze_document_structure(lines), skip_words)} :
          /\ outline' = r.outline
          /\ classified' = r.classified
          /\ result' = process_pdf_result(title, r.outline)
    /\ pc' = "done"
    /\ UNCHANGED <<skip_words, spans, lines, title, memo, batch, headings>>

Next == DecodeLine(LinePool, Pages) \/ ExtractTitle \/ ExtractOutline

Spec == Init /\ [][Next]_vars

(***************************************************************************)
(* The report: "Annual Report 2023" in 24 pt bold at the top of page 1,    *)
(* and body lines in 11 pt below it and on the next pages                  *)
(***************************************************************************)
MaxBodyLines == 2

ReportTitle == <<"A","n","n","u","a","l"," ","R","e","p","o","r","t"," ","2","0","2","3">>

BodyTexts ==
    {<<"T","h","i","s"," ","i","s"," ","t","h","e"," ","b","o","d","y"," ","t","e","x","t"," ","o",
          "f"," ","t","h","e"," ","r","e","p","o","r","t">>,
     <<"R","e","v","e","n","u","e"," ","g","r","e","w"," ","b","y"," ","t","w","e","l","v","e"," ",
           "p","e","r","c","e","n","t",".">>,
     <<"F","i","n","d","i","n","g","s"," ","o","f"," ","t","h","e"," ","Y","e","a","r">>,
     <<"1","."," ","I","n","t","r","o","d","u","c","t","i","o","n">>}

DecodeReportLine ==
    /\ pc = "decode"
    /\ spans = <<>>
    /\ Len(lines) <= MaxBodyLines
    /\ IF lines = <<>>
       THEN lines' = <<mkLine(1, 0, ReportTitle, 24, TRUE)>>
       ELSE \E t \in BodyTexts, b \in BOOLEAN, page \in Pages, y \in Ys :
               /\ \A i \in 1..Len(lines) :
                      ~(lines[i].page = page /\ lines[i].y = y)
               /\ lines' = Append(lines, mkLine(page, y, t, 11, b))
    /\ UNCHANGED <<skip_words, pc, spans, title, outline, classified, result, memo, batch,
          headings>>

NextReport == DecodeReportLine \/ ExtractTitle \/ ExtractOutline

SpecReport == Init /\ [][NextReport]_vars

(***************************************************************************)
(* The spans of a page, merged into Lines.  Coordinates are in tenths of a *)
(* unit: the default tolerances are 30 (3.0) and 150 (15.0).               *)
(***************************************************************************)
MaxSpans == 2

SpanYs == {1000, 1005, 1030}

SpanXs == {500, 900, 1000, 1100}

SpanWidth == [x \in SpanXs |-> IF x = 500 THEN 300 ELSE IF x = 900 THEN 100 ELSE 400]

SpanTexts == {<<"H","e","l","l","o">>, <<"W","o","r","l","d">>}

\* extract_text_spans yields one more span
DecodeSpan ==
    /\ pc = "decode"
    /\ lines = <<>>
    /\ Len(spans) < MaxSpans
    /\ \E t \in SpanTexts, x \in SpanXs, y \in SpanYs :
          /\ \A i \in 1..Len(spans) : spans[i].x # x
          /\ spans' = Append(spans, mkSpan(1, x, y, SpanWidth[x], t, 12, FALSE))
    /\ UNCHANGED <<skip_words, pc, lines, title, outline, classified, result, memo, batch,
          headings>>

\* lines = self.merge_lines(spans)
MergeLines ==
    /\ pc = "decode"
    /\ spans # <<>>
    /\ lines' = merge_lines(spans, 30, 150)
    /\ pc' = "merged"
    /\ UNCHANGED <<skip_words, spans, title, outline, classified, result, memo, batch, headings>>

NextMerge == DecodeSpan \/ MergeLines \/ ExtractTitle \/ ExtractOutline

SpecMerge == Init /\ [][NextMerge]_vars

(***************************************************************************)
(* One extractor, one document after the other (process_pdfs)              *)
(***************************************************************************)
RerunTexts == {<<"P","r","o","j","e","c","t"," ","S","u","m","m","a","r","y">>, <<"1","."," ","I",
      "n","t","r","o","d","u","c","t","i","o","n">>, <<"H","O","P","E"," ","T","o"," ","S","E","E",
      " ","Y","o","u"," ","T","H","E","R","E","!">>}

RerunPool == RerunTexts \X {HeadingStyle}

\* the observer notes a finished document and its results
Remember ==
    /\ pc = "done"
    /\ ~memo.set
    /\ memo' = [set |-> TRUE, others |-> FALSE, lines |-> lines, title |-> title,
                outline |-> outline]
    /\ UNCHANGED <<skip_words, pc, spans, lines, title, outline, classified, result, batch,
          headings>>

\* the loop of process_pdfs goes on to the next file, with the same extractor
NextDocument ==
    /\ pc = "done"
    /\ pc' = "decode"
    /\ spans' = <<>>
    /\ lines' = <<>>
    /\ title' = <<>>
    /\ outline' = NoOutline
    /\ classified' = <<>>
    /\ result' = NoResult
    /\ memo' = IF memo.set /\ lines # memo.lines
               THEN [memo EXCEPT !.others = TRUE] ELSE memo
    /\ UNCHANGED <<skip_words, batch, headings>>

NextRerun ==
    \/ DecodeLine(RerunPool, {1})
    \/ ExtractTitle
    \/ ExtractOutline
    \/ Remember
    \/ NextDocument

SpecRerun == Init /\ [][NextRerun]_vars

(***************************************************************************)
(* process_pdfs: every file is processed and its result written to its     *)
(* output file                                                             *)
(***************************************************************************)
MaxFiles == 2

BatchTexts == {<<".",".",".",".">>, <<"1","."," ","I","n","t","r","o","d","u","c","t","i","o","n">>,
      <<"P","r","o","j","e","c","t"," ","S","u","m","m","a","r","y">>}

BatchPool == BatchTexts \X {HeadingStyle}

\* the messages of the exceptions open and json.dump raise
WriteErrors == {<<"[","E","r","r","n","o"," ","2","1","]"," ","I","s"," ","a"," ","d","i","r","e",
      "c","t","o","r","y",":"," ","'","o","u","t","p","u","t","/","a",".","j","s","o","n","'">>}

error_result(e) == [title |-> <<"E","r","r","o","r",":"," ">> \o e, outline |-> <<>>]

\* fitz.open raises in extract_text_spans: process_pdf returns the record of
\* its except branch
DecodeFails ==
    /\ pc = "decode"
    /\ spans = <<>>
    /\ lines = <<>>
    /\ result' = process_pdf_result(title, RaiseResult)
    /\ pc' = "done"
    /\ UNCHANGED <<skip_words, spans, lines, title, outline, classified, memo, batch, headings>>

\* the result is written to the output file; when open or json.dump raises,
\* the except branch of the loop writes error_result to the same file, and an
\* exception raised there leaves process_pdfs with no record in the file
\* (NoResult)
WriteOutput ==
    /\ pc = "done"
    /\ \E first \in BOOLEAN, second \in BOOLEAN, e \in WriteErrors :
          batch' =
              IF first
              THEN [batch EXCEPT !.written = Append(@, result)]
              ELSE IF second
              THEN [batch EXCEPT !.written = Append(@, error_result(e))]
              ELSE [written |-> Append(batch.written, NoResult), raised |-> TRUE]
    /\ pc' = "written"
    /\ UNCHANGED <<skip_words, spans, lines, title, outline, classified, result, memo,
                   headings>>

\* the loop goes on to the next file
NextFile ==
    /\ pc = "written"
    /\ ~batch.raised
    /\ Len(batch.written) < MaxFiles
    /\ pc' = "decode"
    /\ spans' = <<>>
    /\ lines' = <<>>
    /\ title' = <<>>
    /\ outline' = NoOutline
    /\ classified' = <<>>
    /\ result' = NoResult
    /\ UNCHANGED <<skip_words, memo, batch, headings>>

NextBatch ==
    \/ DecodeLine(BatchPool, {1})
    \/ DecodeFails
    \/ ExtractTitle
    \/ ExtractOutline
    \/ WriteOutput
    \/ NextFile

SpecBatch == Init /\ [][NextBatch]_vars

(***************************************************************************)
(* Lines for classify_heading_level: numbered, decimal and triple-decimal  *)
(* texts, one of them in upper case, short texts and plain ones, a word    *)
(* with a skip word in it, in the heading and the body style, on one page  *)
(***************************************************************************)
ClassifyTexts ==
    {<<"A","n","n","u","a","l"," ","R","e","p","o","r","t"," ","2","0","2","3">>,
     <<"2",".","1"," ","S","c","o","p","e"," ","o","f"," ","w","o","r","k">>,
     <<"(","2",".","1",")"," ","S","c","o","p","e"," ","o","f"," ","w","o","r","k">>,
     <<"2",".","1",".","1"," ","S","c","o","p","e"," ","o","f"," ","w","o","r","k">>,
     <<"3"," ","M","a","i","n"," ","F","i","n","d","i","n","g","s">>,
     <<"w","e"," ","h","o","p","e"," ","s","o">>,
     <<"F","A","Q">>,
     <<"1","2","3","4","5">>,
     <<"2",".","1"," ","S","C","O","P","E"," ","O","F"," ","W","O","R","K">>,
     <<"R","e","f","e","r","e","n","c","e","s">>}

ClassifyPool == ClassifyTexts \X {HeadingStyle, BodyStyle}

NextClassify == DecodeLine(ClassifyPool, {1}) \/ ExtractTitle \/ ExtractOutline

SpecClassify == Init /\ [][NextClassify]_vars

(***************************************************************************)
(* Lines for extract_title: plain titles, one ending in " .", a poster     *)
(* whose three words are spread over two lines, a line of dots, and in the *)
(* body style a long line that starts with a digit and a form title that   *)
(* ends in a field label                                                   *)
(***************************************************************************)
TitleTexts ==
    {<<"P","r","o","j","e","c","t"," ","S","u","m","m","a","r","y">>,
     <<"D","r","a","f","t"," ","n","o","t","e","s"," ",".">>,
     <<"w","e"," ","h","o","p","e"," ","s","o">>,
     <<"S","E","E"," ","Y","O","U"," ","T","H","E","R","E">>,
     <<"R","e","f","e","r","e","n","c","e","s">>,
     <<".",".",".",".">>}

BodyTitleTexts ==
    {<<"3"," ","e","a","s","y"," ","s","t","e","p","s"," ","t","o"," ","a"," ","b","e","t","t","e",
          "r"," ","p","l","a","n">>,
     <<"A","p","p","l","i","c","a","t","i","o","n"," ","f","o","r","m"," ","f","o","r"," ","s","e",
           "r","v","i","c","e">>}

TitlePool ==
    (TitleTexts \X {HeadingStyle, BodyStyle}) \cup (BodyTitleTexts \X {BodyStyle})

\* the y of the lines of a page with more than two lines
TitleYs == {0, 300, 3000}

\* extract_text_spans and merge_lines yield one more Line, at one of ys
DecodeLineAt(pool, pages, ys) ==
    /\ pc = "decode"
    /\ spans = <<>>
    /\ Len(lines) < MaxLines
    /\ \E l \in pool, page \in pages, y \in ys :
          /\ \A i \in 1..Len(lines) : ~(lines[i].page = page /\ lines[i].y = y)
          /\ lines' = Append(lines,
                 mkLine(page, y, l[1], l[2].font_size, l[2].is_bold))
    /\ UNCHANGED <<skip_words, pc, spans, title, outline, classified, result, memo, batch,
          headings>>

NextTitle == DecodeLineAt(TitlePool, {1}, TitleYs) \/ ExtractTitle \/ ExtractOutline

SpecTitle == Init /\ [][NextTitle]_vars

(***************************************************************************)
(* Documents for the second loop of extract_outline: the report title on   *)
(* page 1, under it no or six numbered lines, and on page 2 up to MaxLines *)
(* lines, among them texts that differ in case only                        *)
(***************************************************************************)
NumberedTexts ==
    <<<<"1","."," ","S","e","c","t","i","o","n"," ","o","n","e">>, <<"2","."," ","S","e","c","t",
          "i","o","n"," ","t","w","o">>, <<"3","."," ","S","e","c","t","i","o","n"," ","t","h","r",
          "e","e">>,
      <<"4","."," ","S","e","c","t","i","o","n"," ","f","o","u","r">>, <<"5","."," ","S","e","c",
            "t","i","o","n"," ","f","i","v","e">>, <<"6","."," ","S","e","c","t","i","o","n"," ",
            "s","i","x">>>>

OutlineTexts ==
    {<<"s","u","m","m","a","r","y"," ","o","f"," ","r","e","s","u","l","t","s">>,
     <<"S","u","m","m","a","r","y"," ","o","f"," ","r","e","s","u","l","t","s">>,
     <<"3"," ","M","a","i","n"," ","F","i","n","d","i","n","g","s">>,
     <<"P","r","o","j","e","c","t"," ","P","l","a","n">>,
     <<"P","R","O","J","E","C","T"," ","P","L","A","N">>}

OutlinePool == OutlineTexts \X {HeadingStyle, BodyStyle}

\* the lines of page 2 decoded so far
SecondPage(ls) == SelectSeq(ls, LAMBDA l : l.page = 2)

\* extract_text_spans and merge_lines yield one more Line of such a document
DecodeSectionLine ==
    /\ pc = "decode"
    /\ spans = <<>>
    /\ \/ /\ lines = <<>>
          /\ lines' = <<mkLine(1, 0, ReportTitle, 24, TRUE)>>
       \/ /\ lines # <<>>
          /\ SecondPage(lines) = <<>>
          /\ Len(lines) <= Len(NumberedTexts)
          /\ lines' = Append(lines, mkLine(1, 300 * Len(lines),
                                           NumberedTexts[Len(lines)], 11, FALSE))
       \/ /\ Len(lines) - Len(SecondPage(lines)) \in {1, 1 + Len(NumberedTexts)}
          /\ Len(SecondPage(lines)) < MaxLines
          /\ \E l \in OutlinePool :
                lines' = Append(lines, mkLine(2, 300 * Len(SecondPage(lines)), l[1],
                                              l[2].font_size, l[2].is_bold))
    /\ UNCHANGED <<skip_words, pc, spans, title, outline, classified, result, memo, batch,
          headings>>

NextOutline == DecodeSectionLine \/ ExtractTitle \/ ExtractOutline

SpecOutline == Init /\ [][NextOutline]_vars

(***************************************************************************)
(* validate_page_numbers on its own: Lines of two pages, in the order of   *)
(* their pages as merge_lines yields them, and up to MaxHeadings headings  *)
(* with a page of the document, page 0 or a page without a Line            *)
(***************************************************************************)
MaxHeadings == 2

ValidateTexts == {<<"1","."," ","S","c","o","p","e"," ","o","f"," ","w","o","r","k">>, <<"G","o",
      "a","l","s"," ","a","n","d"," ","s","c","o","p","e">>, <<"B","u","d","g","e","t">>}

ValidateLines ==
    {[i \in DOMAIN f |-> mkLine(f[i][2], 300 * i, f[i][1], 11, FALSE)] :
        f \in {g \in UNION {[1..n -> ValidateTexts \X {1, 2}] : n \in 1..2} :
                  \A i \in DOMAIN g : i > 1 => g[i - 1][2] <= g[i][2]}}

HeadingPool ==
    {mkHeading(l, t, page) : l \in {"H1", "H2"}, t \in {<<"S","c","o","p","e">>, <<"P","l","a",
          "n">>},
                             page \in 0..3}

InitValidate ==
    /\ skip_words = SkipWords
    /\ pc = "validate"
    /\ spans = <<>>
    /\ lines \in ValidateLines
    /\ title = <<>>
    /\ outline = NoOutline
    /\ classified = <<>>
    /\ result = NoResult
    /\ memo = NoMemo
    /\ batch = NoBatch
    /\ headings \in UNION {[1..n -> HeadingPool] : n \in 1..MaxHeadings}

\* final_headings = self.validate_page_numbers(final_headings, lines)
ValidatePageNumbers ==
    /\ pc = "validate"
    /\ outline' = ListResult(validate_page_numbers(headings, lines))
    /\ pc' = "done"
    /\ UNCHANGED <<skip_words, spans, lines, title, classified, result, memo, batch,
                   headings>>

NextValidate == ValidatePageNumbers

SpecValidate == InitValidate /\ [][NextValidate]_vars

(***************************************************************************)
(* Long documents: the report title, then MaxSections - 3 to MaxSections   *)
(* numbered lines, every m-th of them sub-numbered, per lines a page       *)
(***************************************************************************)
MaxSections == 42

SubEvery == {2, 3, 4, 5}

PerPage == {3, 4, 7, 50}

\* k in decimal, for k < 100
Decimal(k) ==
    IF k < 10 THEN <<<<"0","1","2","3","4","5","6","7","8","9">>[k + 1]>>
    ELSE <<<<"0","1","2","3","4","5","6","7","8","9">>[(k \div 10) + 1], <<"0","1","2","3","4","5",
          "6","7","8","9">>[(k % 10) + 1]>>

SectionText(k, m) ==
    IF k % m = 0 THEN Decimal(k) \o <<".","1"," ","S","c","o","p","e"," ","o","f"," ","w","o","r",
          "k">>
    ELSE Decimal(k) \o <<"."," ","S","e","c","t","i","o","n">>

\* extract_text_spans and merge_lines yield the Lines of a long document
DecodeSections ==
    /\ pc = "decode"
    /\ spans = <<>>
    /\ lines = <<>>
    /\ \E n \in (MaxSections - 3)..MaxSections, m \in SubEvery, per \in PerPage :
          lines' = <<mkLine(1, 0, ReportTitle, 24, TRUE)>> \o
                       [k \in 1..n |-> mkLine(1 + (k \div per), 120 * (k % per),
                                              SectionText(k, m), 11, FALSE)]
    /\ UNCHANGED <<skip_words, pc, spans, title, outline, classified, result, memo, batch,
          headings>>

NextLong == DecodeSections \/ ExtractTitle \/ ExtractOutline

SpecLong == Init /\ [][NextLong]_vars

(***************************************************************************)
(* Properties                                                              *)
(***************************************************************************)
FormCount(ls) ==
    Cardinality({w \in form_indicators : Contains(JoinLower(ls), w)})

HeadingTexts(o) == {o.headings[i].text : i \in 1..Len(o.headings)}

SingleH1OnPageZero(o) ==
    /\ o.kind = "list"
    /\ Len(o.headings) = 1
    /\ o.headings[1].level = "H1"
    /\ o.headings[1].page = 0

MaxFont(ls) == Max({ls[i].font_size : i \in 1..Len(ls)})

\* C1: when the joined lower-cased text of the Lines contains at least 8 terms
\* of the form-field vocabulary, extract_outline returns the empty list,
\* whatever headings or trigger words the Lines hold.
C1_FormOutlineEmpty ==
    (pc = "done" /\ FormCount(lines) >= 8) => outline = ListResult(<<>>)

\* a form that also holds the brochure's main heading, in the style of a heading
C1_FormWithTrigger ==
    /\ pc = "done"
    /\ FormCount(lines) >= 8
    /\ \E i \in 1..Len(lines) :
           lines[i].text = <<"P","A","T","H","W","A","Y"," ","O","P","T","I","O","N",
                 "S">> /\ lines[i].is_bold
    /\ outline = ListResult(<<>>)

\* C2: when the joined lower-cased text of the Lines contains "pathway" and
\* "options", the outline has exactly one entry, of level H1 and page 0.
C2_BrochureSingleH1 ==
    (pc = "done" /\ PathwayOptions(JoinLower(lines))) => SingleH1OnPageZero(outline)

\* C3: when the joined lower-cased text of the Lines contains "hope", "see"
\* and "there", extract_outline returns a list of headings with exactly one
\* heading, of level H1 and page 0, also when no line matches any step of
\* the fallback chain.
C3_PosterSingleH1 ==
    (pc = "done" /\ HopeSeeThere(JoinLower(lines))) => SingleH1OnPageZero(outline)

\* C4: classify_heading_level returns one of H1, H2, H3, H4 or None for every
\* Line it is called on.
C4_LevelInRange ==
    \A i \in 1..Len(classified) :
        classified[i].called
            => classified[i].level \in {"H1", "H2", "H3", "H4", "None"}

\* a document with one Line classified H1 and another scored and rejected
C4_LevelsReturned ==
    /\ pc = "done"
    /\ \E i, j \in 1..Len(classified) :
           /\ classified[i].called /\ classified[i].level = "H1"
           /\ classified[j].called /\ classified[j].scored
           /\ classified[j].level = "None"

\* C5: no heading of the outline has the text of the title (its trailing
\* spaces ignored) or of one of the title's two-space-separated segments.
C5_NoHeadingEqualsTitle ==
    (pc = "done" /\ outline.kind = "list")
        => \A t \in HeadingTexts(outline) :
               /\ t # strip(title)
               /\ \A k \in 1..Len(split2(title)) : t # split2(title)[k]

IsReport(ls) ==
    /\ Len(ls) >= 3
    /\ ls[1] = mkLine(1, 0, ReportTitle, 24, TRUE)
    /\ \A i \in 2..Len(ls) :
           /\ ls[i].font_size = 11
           /\ ls[i].page = 1 => ls[i].y > 0

\* C6: for the report (the page-1 line "Annual Report 2023", bold, 24 pt,
\* topmost, and at least two body lines of 11 pt) extract_title returns
\* "Annual Report 2023" followed by two spaces, and no heading of the
\* outline is built from that line.
C6_ReportTitle ==
    (pc = "done" /\ IsReport(lines))
        => /\ title = ReportTitle \o <<" "," ">>
           /\ outline.kind = "list"
           /\ ReportTitle \notin HeadingTexts(outline)

\* a report whose outline holds a heading built from a body line
C6_ReportWithHeading ==
    /\ pc = "done"
    /\ IsReport(lines)
    /\ title = ReportTitle \o <<" "," ">>
    /\ outline.kind = "list"
    /\ HeadingTexts(outline) # {}

StyledAfterBody(ls, word) ==
    /\ Len(ls) = 2
    /\ ls[1] = mkLine(1, 0, <<"T","h","e"," ","q","u","i","c","k"," ","f","o","x"," ","r","u","n",
          "s",".">>, 11, FALSE)
    /\ ls[2] = mkLine(1, 3000, word, 24, TRUE)

\* C7: when the single word "References" stands in the largest font and bold
\* after body text, the outline holds a heading "References"; with
\* "Overview2" in its place, the outline holds no heading of that text.
C7_ReferencesListed ==
    /\ (pc = "done" /\ StyledAfterBody(lines, <<"R","e","f","e","r","e","n","c","e","s">>))
           => (outline.kind = "list" /\ <<"R","e","f","e","r","e","n","c","e",
                 "s">> \in HeadingTexts(outline))
    /\ (pc = "done" /\ StyledAfterBody(lines, <<"O","v","e","r","v","i","e","w","2">>))
           => (outline.kind = "list" /\ <<"O","v","e","r","v","i","e","w",
                 "2">> \notin HeadingTexts(outline))

\* two spans of one page at y = 100.0 and y = 100.5, the right one starting
\* 20 after the end of the left one
TwoSpansHalfApart(sp) ==
    /\ Len(sp) = 2
    /\ sp[1].page = sp[2].page
    /\ {sp[1].y, sp[2].y} = {1000, 1005}
    /\ \E l, r \in 1..2 : sp[r].x - (sp[l].x + sp[l].width) = 200

\* C8: merge_lines with the tolerances 3.0 and 15 turns two spans of one page
\* at y = 100.0 and y = 100.5 with a horizontal gap of 20 into one Line, the
\* two texts with exactly one space between them.
C8_SpansMergeIntoOneLine ==
    (pc # "decode" /\ TwoSpansHalfApart(spans))
        => /\ Len(lines) = 1
           /\ \E l, r \in 1..2 :
                  /\ spans[l].x < spans[r].x
                  /\ lines[1].text = spans[l].text \o <<" ">> \o spans[r].text

\* C9: a bold Line whose font size is at least 98% of the largest font size
\* of the document gets a score of at least 85 from classify_heading_level.
C9_BoldMaxFontFloor ==
    pc = "done"
        => \A i \in 1..Len(classified) :
               (/\ classified[i].scored
                /\ lines[i].is_bold
                /\ 100 * lines[i].font_size >= 98 * MaxFont(lines))
                   => classified[i].score >= 85

\* a bold Line in the largest font, scored, next to a Line in a smaller font
C9_BoldMaxFontScored ==
    /\ pc = "done"
    /\ \E i, j \in 1..Len(classified) :
           /\ classified[i].scored
           /\ lines[i].is_bold
           /\ 100 * lines[i].font_size >= 98 * MaxFont(lines)
           /\ lines[j].font_size < lines[i].font_size
           /\ classified[i].score >= 85

C11_EveryFileWritten ==
    /\ ~batch.raised
    /\ \A i \in 1..Len(batch.written) : batch.written[i] # NoResult
    /\ pc = "written" =>
          \/ batch.written[Len(batch.written)] = result
          \/ batch.written[Len(batch.written)].outline = <<>>

\* C12: a Line that cannot be a heading (its cleaned text is empty, as for a
\* Line of dots) does not cost the document its result: next to other Lines,
\* process_pdf still returns the title and an outline, not the record of its
\* except branch.
C12_BadLineKeepsOutline ==
    (/\ pc = "done"
     /\ Len(lines) >= 2
     /\ \E i \in 1..Len(lines) : HeadingText(strip(lines[i].text)) = <<>>)
        => /\ outline.kind # "raise"
           /\ result.title # <<"E","r","r","o","r"," ","P","r","o","c","e","s","s","i","n","g"," ",
                 "D","o","c","u","m","e","n","t">>

\* C13: every title other than the fallback for no candidate ends with
\* exactly two spaces.
C13_TitleEndsInTwoSpaces ==
    (pc \in {"title", "done"} /\ title # <<"U","n","t","i","t","l","e","d"," ","D","o","c","u","m",
          "e","n","t">>)
        => /\ Len(title) >= 3
           /\ SubSeq(title, Len(title) - 1, Len(title)) = <<" "," ">>
           /\ title[Len(title) - 2] # " "

\* C14: extract_title returns "Untitled Document" if and only if no Line is
\* accepted as a title candidate.
C14_UntitledIffNoCandidate ==
    pc \in {"title", "done"}
        => (title = <<"U","n","t","i","t","l","e","d"," ","D","o","c","u","m","e","n","t">>
               <=> title_candidates(lines, skip_words) = <<>>)

\* a document with Lines of which none is a candidate, and its title
C14_NoCandidateAmongLines ==
    /\ pc = "title"
    /\ Len(lines) >= 2
    /\ \E i \in 1..Len(lines) : HeadingText(strip(lines[i].text)) # <<>>
    /\ title_candidates(lines, skip_words) = <<>>
    /\ title = <<"U","n","t","i","t","l","e","d"," ","D","o","c","u","m","e","n","t">>

\* a document that triggers neither the brochure nor the poster override
NoOverride(ls) == ~HopeSeeThere(JoinLower(ls)) /\ ~PathwayOptions(JoinLower(ls))

\* the bounds of the quality gate on a heading text, its first character apart
GateBounds(t) ==
    /\ 3 <= Len(t) /\ Len(t) <= 200
    /\ 1 <= word_count(t) /\ word_count(t) <= 15
    /\ count(t, ".") <= 5
    /\ count(t, ",") <= 3
    /\ alpha_count(t) * 10 >= Len(t) * 3

\* C17: without an override every heading of the outline has a text of 3 to
\* 200 characters and 1 to 15 words, starting with an upper-case letter, with
\* at most 5 periods and 3 commas and at least 30% letters.
C17_QualityGate ==
    (pc = "done" /\ outline.kind = "list" /\ NoOverride(lines))
        => \A i \in 1..Len(outline.headings) :
               /\ GateBounds(outline.headings[i].text)
               /\ outline.headings[i].text[1] \in UpperChars

\* C17 as amended: the same, the first character being anything but a
\* lower-case letter.
C17_QualityGateNotLower ==
    (pc = "done" /\ outline.kind = "list" /\ NoOverride(lines))
        => \A i \in 1..Len(outline.headings) :
               /\ GateBounds(outline.headings[i].text)
               /\ outline.headings[i].text[1] \notin LowerChars

\* an outline with a heading that starts with a digit, of a document with a
\* lower-case line that the first loop made a heading
C17_DigitHeadingKept ==
    /\ pc = "done"
    /\ outline.kind = "list"
    /\ NoOverride(lines)
    /\ \E i \in 1..Len(outline.headings) : outline.headings[i].text[1] \in DigitChars
    /\ \E i \in 1..Len(lines) :
           /\ classified[i].level # "None"
           /\ strip(lines[i].text)[1] \in LowerChars

\* C18: without an override, in a document with more than 5 numbered lines
\* every heading of the outline is numbered by the test that counts the
\* numbered lines (digits followed by a dot).
C18_NumberedOnly ==
    (/\ pc = "done"
     /\ outline.kind = "list"
     /\ NoOverride(lines)
     /\ analyze_text_patterns(lines).numbered_sections > 5)
        => \A i \in 1..Len(outline.headings) :
               re_match(RE_Numbered, outline.headings[i].text)

\* h is the first of the candidates p with its key (gated: the first of them
\* that passes the quality gate), with that candidate's level and text and
\* its page as validate_page_numbers leaves it
KeptIsFirst(h, p, ls, ds, gated) ==
    \E j \in 1..Len(p) :
        /\ DedupKey(p[j]) = DedupKey(h)
        /\ gated => is_quality_heading(p[j], ds)
        /\ \A k \in 1..(j - 1) :
               ~(DedupKey(p[k]) = DedupKey(h)
                 /\ (gated => is_quality_heading(p[k], ds)))
        /\ h.level = p[j].level
        /\ h.text = p[j].text
        /\ h.page = ValidatedPage(p[j], ls)

\* the headings the second loop of extract_outline passes on, in its order
Candidates(ls, cls) == important_headings(potential_headings(ls, cls), JoinLower(ls))

NoTwoAlike(hs) ==
    \A i, j \in 1..Len(hs) : i # j => DedupKey(hs[i]) # DedupKey(hs[j])

\* C19: no two headings of an outline have the same normalized lower-case
\* text, and of the candidates with one key the first in processing order is
\* the one kept, with its level and page.
C19_FirstOccurrenceKept ==
    (pc = "done" /\ outline.kind = "list")
        => /\ NoTwoAlike(outline.headings)
           /\ (NoOverride(lines) /\ Len(classified) = Len(lines))
                  => \A i \in 1..Len(outline.headings) :
                         KeptIsFirst(outline.headings[i],
                                     Candidates(lines, classified), lines,
                                     analyze_document_structure(lines), FALSE)

\* C19 as amended: no two headings alike, and of the candidates with one key
\* the first that passes the quality gate is the one kept.
C19_FirstQualityKept ==
    (pc = "done" /\ outline.kind = "list")
        => /\ NoTwoAlike(outline.headings)
           /\ (NoOverride(lines) /\ Len(classified) = Len(lines))
                  => \A i \in 1..Len(outline.headings) :
                         KeptIsFirst(outline.headings[i],
                                     Candidates(lines, classified), lines,
                                     analyze_document_structure(lines), TRUE)

\* two candidates with one key, both passing the quality gate, one heading
C19_TwoAlikeOneKept ==
    /\ pc = "done"
    /\ outline.kind = "list"
    /\ NoOverride(lines)
    /\ Len(classified) = Len(lines)
    /\ \E i, j \in 1..Len(Candidates(lines, classified)) :
           /\ i < j
           /\ DedupKey(Candidates(lines, classified)[i])
                  = DedupKey(Candidates(lines, classified)[j])
           /\ is_quality_heading(Candidates(lines, classified)[i],
                                 analyze_document_structure(lines))
           /\ is_quality_heading(Candidates(lines, classified)[j],
                                 analyze_document_structure(lines))
           /\ Candidates(lines, classified)[i].level
                  # Candidates(lines, classified)[j].level
    /\ Len(outline.headings) >= 1

\* the level the tiers give a score, t being the text the numbering is read
\* from
TierLevel(score, t) ==
    IF score >= 95
    THEN (IF re_match(RE_SubNumbered, t) THEN "H2" ELSE "H1")
    ELSE IF score >= 75
    THEN (IF re_match(RE_SubSubNumbered, t) THEN "H3" ELSE "H2")
    ELSE IF score >= 60 THEN "H3"
    ELSE IF score >= 50 THEN "H4"
    ELSE "None"

\* C15: a Line that passes the early returns gets H1 for a score >= 95 (H2
\* when its text starts with n.n), H2 for 75..94 (H3 when its text starts
\* with n.n.n), H3 for 60..74, H4 for 50..59 and None below 50.
C15_TierOfText ==
    \A i \in 1..Len(classified) :
        classified[i].scored
            => classified[i].level
                   = TierLevel(classified[i].score, strip(lines[i].text))

\* C15 as amended: the same tiers, the numbering read from the cleaned text
\* (trailing dots removed, white space collapsed, every character other than
\* a word character, white space, '-' and '.' removed).
C15_TierOfCleanText ==
    \A i \in 1..Len(classified) :
        classified[i].scored
            => classified[i].level
                   = TierLevel(classified[i].score,
                               HeadingCleanText(strip(lines[i].text)))

\* a Line with a triple-decimal text scored in 75..94, which makes it H3
C15_TripleDecimalH3 ==
    /\ pc = "done"
    /\ \E i \in 1..Len(classified) :
           /\ classified[i].scored
           /\ classified[i].score \in 75..94
           /\ re_match(RE_SubSubNumbered, strip(lines[i].text))
           /\ classified[i].level = "H3"

\* C16: classify_heading_level returns None without scoring exactly for the
\* texts shorter than 3 characters, of digits only, with a boilerplate term,
\* with more than 10 dots or more than 5 underscores; every other Line, one
\* of exactly 3 characters too, is scored, and rejected only below 50.
C16_HardRejects ==
    \A i \in 1..Len(classified) :
        classified[i].called
            => /\ ~classified[i].scored
                   <=> (\/ Len(strip(lines[i].text)) < 3
                        \/ isdigit(strip(lines[i].text))
                        \/ ContainsAny(lower(strip(lines[i].text)), skip_words)
                        \/ count(strip(lines[i].text), ".") > 10
                        \/ count(strip(lines[i].text), "_") > 5)
               /\ classified[i].scored
                   => (classified[i].level = "None" <=> classified[i].score < 50)

\* the pages with a Line that contains t, case ignored
PagesWith(ls, t) ==
    {ls[k].page : k \in {k \in 1..Len(ls) : Contains(lower(ls[k].text), lower(t))}}

\* C20: validate_page_numbers returns the headings it was given, in their
\* order, with their levels and texts.  A heading of page 0 keeps it; another
\* keeps its page when a Line of that page contains its text, else gets the
\* lowest page with such a Line, else keeps its page.  It never raises.
C20_PagesValidated ==
    pc = "done"
        => /\ outline.kind = "list"
           /\ Len(outline.headings) = Len(headings)
           /\ \A i \in 1..Len(headings) :
                  /\ outline.headings[i].level = headings[i].level
                  /\ outline.headings[i].text = headings[i].text
                  /\ outline.headings[i].page =
                         IF headings[i].page = 0 THEN 0
                         ELSE IF headings[i].page \in PagesWith(lines, headings[i].text)
                         THEN headings[i].page
                         ELSE IF PagesWith(lines, headings[i].text) # {}
                         THEN Min(PagesWith(lines, headings[i].text))
                         ELSE headings[i].page

\* a heading moved to page 1 although page 2 has its text as well, next to a
\* heading that kept its page
C20_MovedToFirstPage ==
    /\ pc = "done"
    /\ \E i, j \in 1..Len(headings) :
           /\ headings[i].page \notin {0, 1, 2}
           /\ PagesWith(lines, headings[i].text) = {1, 2}
           /\ outline.headings[i].page = 1
           /\ headings[j].page = 2
           /\ outline.headings[j].page = 2

\* the headings that remain after validation, of a document without override
Remaining(ls, cls, ds) ==
    validate_page_numbers(
        final_headings(important_headings(potential_headings(ls, cls), JoinLower(ls)),
                       {}, ds), ls)

\* a comes before b in the order (page, level rank)
PageLevelBefore(a, b) ==
    \/ a.page < b.page
    \/ (a.page = b.page /\ LevelRank(a.level) < LevelRank(b.level))

\* the place of hs[i] when hs is put in the order (page, level rank), headings
\* alike in both keeping their order
PlaceOf(hs, i) ==
    1 + Cardinality({j \in 1..Len(hs) :
                        \/ PageLevelBefore(hs[j], hs[i])
                        \/ (j < i /\ ~PageLevelBefore(hs[i], hs[j]))})

\* the outline is what the claim says of the remaining headings hs
FirstFortyOf(hs) ==
    IF Len(hs) > 40
    THEN /\ Len(outline.headings) = 40
         /\ \A i \in 1..Len(hs) :
                PlaceOf(hs, i) <= 40 => outline.headings[PlaceOf(hs, i)] = hs[i]
    ELSE outline.headings = hs

\* C21: an outline has at most 40 headings; when more than 40 remain after
\* validation it is the first 40 of them in the order (page ascending, then
\* level rank H1 < H2 < H3 < H4), and else their order is left as it was.
C21_FirstFortyByPageLevel ==
    (pc = "done" /\ outline.kind = "list")
        => /\ Len(outline.headings) <= 40
           /\ NoOverride(lines) /\ classified # <<>>
                  => FirstFortyOf(Remaining(lines, classified,
                                            analyze_document_structure(lines)))

\* an outline of 40 headings that are not the first 40 headings that remained
C21_CutAfterSorting ==
    /\ pc = "done"
    /\ outline.kind = "list"
    /\ Len(outline.headings) = 40
    /\ \E hs \in {Remaining(lines, classified, analyze_document_structure(lines))} :
           /\ Len(hs) > 40
           /\ outline.headings # SubSeq(hs, 1, 40)

\* extract_title scores the line: its stripped text has more than 3 characters,
\* is not a number, and its cleaned text has no skip word or has a form word
TitleScored(line, skipw) ==
    /\ Len(strip(line.text)) > 3
    /\ ~isdigit(strip(line.text))
    /\ ContainsAny(lower(TitleText(line)), skipw)
           => ContainsAny(lower(TitleText(line)), FormTitleWords)

\* the candidates made of the line at (page, y)
CandidatesAt(cands, page, y) == SelectSeq(cands, LAMBDA c : c.page = page /\ c.y = y)

\* the acceptance rule of the claim, for a line of cleaned text t and score s
\* of which the candidates c were made
AcceptanceRule(t, s, c) ==
    IF s > 50 /\ Len(t) > 5
    THEN Len(c) = 1 /\ c[1].text = t /\ c[1].score = s
    ELSE IF s > 30 /\ Len(t) > 20 /\ word_count(t) >= 5
    THEN Len(c) = 1 /\ c[1].text = t /\ c[1].score = s + 20
    ELSE c = <<>>

\* every scored line of ls obeys the acceptance rule
AcceptanceRuleObeyed(ls, ds, skipw, cands) ==
    \A i \in 1..Len(ls) :
        TitleScored(ls[i], skipw)
            => AcceptanceRule(TitleText(ls[i]),
                              TitleScore(ls[i], TitleText(ls[i]), ds, skipw),
                              CandidatesAt(cands, ls[i].page, ls[i].y))

\* the candidates with the highest score
TopCandidates(cands) ==
    {cands[k] : k \in {k \in 1..Len(cands) :
                          \A j \in 1..Len(cands) : cands[j].score <= cands[k].score}}

\* t, and t without the field label it ends with when it is a form title
TextAndFormStems(t) ==
    {t} \cup
    {strip(SubSeq(t, 1, Len(t) - Len(unwanted_suffixes[k]))) :
        k \in {k \in 1..Len(unwanted_suffixes) :
                  /\ Contains(lower(t), <<"f","o","r","m">>) \/ Contains(lower(t), <<"a","p","p",
                        "l","i","c","a","t","i","o","n">>)
                  /\ endswith(lower(t), unwanted_suffixes[k])}}

\* t is the first segment of the title: the title is t, or t and two spaces
\* with or without more
FirstSegmentIs(t) == title = t \/ startswith(title, t \o <<" "," ">>)

\* C22: a scored Line becomes a title candidate exactly when its score is > 50
\* and its length > 5, or its score > 30, its length > 20 and its word count
\* >= 5 (then with its score raised by 20); when there is a candidate, the
\* first segment of the title is the text of a candidate of highest score.
C22_TopCandidateTitled ==
    pc = "title"
        => \E cands \in {title_candidates(lines, skip_words)} :
               /\ AcceptanceRuleObeyed(lines, analyze_document_structure(lines),
                                       skip_words, cands)
               /\ cands # <<>>
                      => \E c \in TopCandidates(cands) : FirstSegmentIs(c.text)

\* C22 as amended: the same of a document whose text does not have hope, see
\* and there, the first segment being the text of a candidate of highest
\* score or, for a form title, that text without the field label at its end.
C22_TopCandidateUnlessPoster ==
    pc = "title"
        => \E cands \in {title_candidates(lines, skip_words)} :
               /\ AcceptanceRuleObeyed(lines, analyze_document_structure(lines),
                                       skip_words, cands)
               /\ (cands # <<>> /\ ~HopeSeeThere(JoinLower(lines)))
                      => \E c \in TopCandidates(cands) :
                             \E t \in TextAndFormStems(c.text) : FirstSegmentIs(t)

\* a title made of the one candidate of highest score, of a document with a
\* second candidate that the relaxed rule accepted
C22_TopBeatsRelaxed ==
    /\ pc = "title"
    /\ ~HopeSeeThere(JoinLower(lines))
    /\ \E cands \in {title_candidates(lines, skip_words)} :
           /\ Len(cands) = 2
           /\ cands[1].score > cands[2].score
           /\ FirstSegmentIs(cands[1].text)
           /\ \E i \in 1..Len(lines) :
                  /\ lines[i].y = cands[2].y
                  /\ TitleScore(lines[i], TitleText(lines[i]),
                                analyze_document_structure(lines), skip_words) <= 50

\* the spans of sp that merge_lines puts in the Line at (page, y), by their x
SpansOfLine(sp, page, y, y_tolerance) ==
    StableSort(SelectSeq(sp, LAMBDA s : s.page = page /\ y_key(s, y_tolerance) = y),
               LAMBDA a, b : a.x < b.x)

\* the texts of line_spans from the k-th on, a space before each span that
\* starts more than x_tolerance after the end of the span before it
RECURSIVE JoinedByGap(_, _, _)
JoinedByGap(line_spans, k, x_tolerance) ==
    IF k > Len(line_spans) THEN <<>>
    ELSE (IF k > 1
             /\ line_spans[k].x - (line_spans[k - 1].x + line_spans[k - 1].width)
                    > x_tolerance
          THEN <<" ">> ELSE <<>>)
         \o line_spans[k].text \o JoinedByGap(line_spans, k + 1, x_tolerance)

\* C23: between two spans adjacent in x order within a line merge_lines puts
\* a single space if and only if the next span starts more than the
\* x-tolerance after the end of the previous one; otherwise, also when the
\* spans overlap, the texts are joined directly.
C23_SpaceIffGapExceeds ==
    pc = "merged"
        => \A i \in 1..Len(lines) :
               lines[i].text =
                   JoinedByGap(SpansOfLine(spans, lines[i].page, lines[i].y, 30), 1, 150)

\* the Lines ls in the order p, a permutation of their indexes
PermutedBy(ls, p) == [i \in 1..Len(ls) |-> ls[p[i]]]

\* C24: extract_title and extract_outline process the Lines in (page, y)
\* order whatever order they come in: every permutation of the Lines gives the
\* same title and the same outline, heading by heading.
C24_OrderIndependent ==
    pc = "done"
        => \A p \in Permutations(1..Len(lines)) :
               /\ extract_title(PermutedBy(lines, p), skip_words) = title
               /\ extract_outline(PermutedBy(lines, p), skip_words) = outline

C26_UpperCaseIsH1 ==
    (pc = "done" /\ outline.kind = "list")
        => \A i \in 1..Len(outline.headings) :
               (isupper(outline.headings[i].text) /\ Len(outline.headings[i].text) > 5)
                   => outline.headings[i].level = "H1"

\* an upper-case heading of more than 5 characters whose Line
\* classify_heading_level gave another level than H1, without override
C26_UpperCaseRaised ==
    /\ pc = "done"
    /\ outline.kind = "list"
    /\ NoOverride(lines)
    /\ \E i \in 1..Len(outline.headings), k \in 1..Len(classified) :
           /\ isupper(outline.headings[i].text)
           /\ Len(outline.headings[i].text) > 5
           /\ outline.headings[i].text = HeadingText(strip(lines[k].text))
           /\ classified[k].level \in {"H2", "H3", "H4"}
           /\ outline.headings[i].level = "H1"

====
